---------------------------- MODULE Spec2Model ----------------------------
(***************************************************************************)
(* A model of the random-access encrypted file of cryptomator-rs           *)
(* (src/src/fs/encrypted_file.rs): one ciphertext file, the streams opened *)
(* on it, each with its own file descriptor (cursor) and cached header,    *)
(* and the advisory lock every operation takes for its duration.           *)
(*                                                                         *)
(* Sizes are scaled: a cleartext chunk holds CHUNK_LEN bytes instead of    *)
(* 32 KiB, nonces, MACs and header payloads are a byte or two long, and    *)
(* a u64 is WordBits wide.  All position arithmetic is written in terms    *)
(* of these names exactly as the source writes it.                         *)
(***************************************************************************)
EXTENDS Integers, Sequences, FiniteSets, TLC

\* ------------------------------------------------------------------ sizes
\* Scaled lengths of the cryptor (v1.rs: 16, 32, 8, 32 and 32 * 1024).
NONCE_LEN == 1
MAC_LEN == 1
RESERVED_LEN == 1
CONTENT_KEY_LEN == 1
CHUNK_LEN == 3

PAYLOAD_LEN == RESERVED_LEN + CONTENT_KEY_LEN
ENCRYPTED_HEADER_LEN == NONCE_LEN + PAYLOAD_LEN + MAC_LEN
ENCRYPTED_CHUNK_LEN == NONCE_LEN + CHUNK_LEN + MAC_LEN

\* Width of u64 in the model, and the values that follow from it.  i64 is
\* two bits narrower, so that the ciphertext position of a non-negative i64
\* offset fits a u64, as it does in the source (where an encrypted chunk is
\* 1.0015 times a cleartext chunk, not almost twice one).
WordBits == 6
U64 == 2 ^ WordBits
U64_MAX == U64 - 1
I64_MAX == (U64 \div 4) - 1
I64_MIN == 0 - (U64 \div 4)

\* x as u64 for an i64 x, and the i64 a wrapping operation leaves for x.
AsU64(x) == IF x < 0 THEN U64 + x ELSE x
WrapI64(x) ==
  IF x > I64_MAX THEN x - (I64_MAX - I64_MIN + 1)
  ELSE IF x < I64_MIN THEN x + (I64_MAX - I64_MIN + 1)
  ELSE x

\* The most cleartext bytes a modelled file holds.
MaxLen == 6

\* The byte values of the model, and their number.
Byte == {0, 1}
ByteMod == Cardinality(Byte)
\* The values the OS random generator is sampled from (every byte of one
\* nonce or key drawn alike).
RandVals == {0, 1}
KeyVals == {1}
\* Value of a reserved header byte (0xff in the source).
ReservedByte == ByteMod - 1

Streams == {1, 2}

Min(a, b) == IF a <= b THEN a ELSE b
Max(a, b) == IF a >= b THEN a ELSE b

\* u64::saturating_sub and u64::saturating_add
SatSub(a, b) == IF a >= b THEN a - b ELSE 0
SatAdd(a, b) == IF a + b > U64_MAX THEN U64_MAX ELSE a + b

Fill(v, n) == [i \in 1 .. n |-> v]
Take(s, n) == SubSeq(s, 1, Min(n, Len(s)))
Drop(s, n) == SubSeq(s, n + 1, Len(s))

\* ------------------------------------------------------------ the cryptor
\* The master key's two subkeys.
MasterKey == [enc_key |-> 1, mac_key |-> 2]

\* Modulus and radix of the stand-in for SHA-256: a radix-HashBase reading
\* of the input, injective on the inputs the model builds.
HashMod == (2 ^ 28) - 57
HashBase == ByteMod + 3

RECURSIVE Hash(_, _)
Hash(h, s) ==
  IF s = <<>> THEN h
  ELSE Hash((h * HashBase + (Head(s) % HashMod) + 1) % HashMod, Tail(s))

\* HMAC under the MAC subkey: MAC_LEN bytes, each depending on all of data.
Hmac(key, data) == [i \in 1 .. MAC_LEN |-> Hash(key, Append(data, i))]

\* usize::to_be_bytes of a chunk number: one digit per byte, most
\* significant first (a single byte holds every chunk number of the model).
ToBeBytes(n) == <<n>>

\* AES-CTR keystream byte i for (key, nonce) and its application; applying
\* it twice gives the message back, as XOR with a keystream does.
KeyStream(key, nonce, i) == (key + Hash(0, nonce) + i) % ByteMod
AesCtr(key, nonce, message) ==
  [i \in 1 .. Len(message) |->
     (KeyStream(key, nonce, i) + ByteMod - (message[i] % ByteMod)) % ByteMod]

Ok(v) == [ok |-> TRUE, val |-> v, err |-> "none"]
Err(e) == [ok |-> FALSE, val |-> <<>>, err |-> e]

NoHeader == [nonce |-> <<>>, payload |-> <<>>]

\* FileHeader::new with the random bytes r (nonce) and k (content key).
NewHeader(r, k) ==
  [nonce |-> Fill(r, NONCE_LEN),
   payload |-> Fill(ReservedByte, RESERVED_LEN) \o Fill(k, CONTENT_KEY_LEN)]

HeaderMac(nonce_and_payload) == Hmac(MasterKey.mac_key, nonce_and_payload)

EncryptHeader(h) ==
  LET buffer == h.nonce \o AesCtr(MasterKey.enc_key, h.nonce, h.payload)
  IN buffer \o HeaderMac(buffer)

DecryptHeader(encrypted_header) ==
  IF Len(encrypted_header) # ENCRYPTED_HEADER_LEN THEN Err("InvalidHeaderLen")
  ELSE LET nonce_and_payload == Take(encrypted_header, NONCE_LEN + PAYLOAD_LEN)
           expected_mac == Drop(encrypted_header, NONCE_LEN + PAYLOAD_LEN)
           nonce == Take(nonce_and_payload, NONCE_LEN)
           payload == Drop(nonce_and_payload, NONCE_LEN)
       IN IF HeaderMac(nonce_and_payload) # expected_mac THEN Err("MacMismatch")
          ELSE Ok([nonce |-> nonce,
                   payload |-> AesCtr(MasterKey.enc_key, nonce, payload)])

ChunkMac(data, header, chunk_number) ==
  Hmac(MasterKey.mac_key, header.nonce \o ToBeBytes(chunk_number) \o data)

\* encrypt_chunk with the random nonce byte r.
EncryptChunk(chunk, header, chunk_number, r) ==
  IF chunk = <<>> \/ Len(chunk) > CHUNK_LEN THEN Err("InvalidChunkSize")
  ELSE LET nonce == Fill(r, NONCE_LEN)
           buffer == nonce \o AesCtr(MasterKey.enc_key, nonce, chunk)
       IN Ok(buffer \o ChunkMac(buffer, header, chunk_number))

DecryptChunk(encrypted_chunk, header, chunk_number) ==
  IF \/ Len(encrypted_chunk) <= NONCE_LEN + MAC_LEN
     \/ Len(encrypted_chunk) > ENCRYPTED_CHUNK_LEN
  THEN Err("InvalidChunkSize")
  ELSE LET nonce_and_chunk == Take(encrypted_chunk, Len(encrypted_chunk) - MAC_LEN)
           expected_mac == Drop(encrypted_chunk, Len(encrypted_chunk) - MAC_LEN)
           nonce == Take(nonce_and_chunk, NONCE_LEN)
           chunk == Drop(nonce_and_chunk, NONCE_LEN)
       IN IF ChunkMac(nonce_and_chunk, header, chunk_number) # expected_mac
          THEN Err("MacMismatch")
          ELSE Ok(AesCtr(MasterKey.enc_key, nonce, chunk))

\* The cryptor's capability constants, as the stream queries them.
encrypted_header_len == ENCRYPTED_HEADER_LEN
max_chunk_len == CHUNK_LEN
max_encrypted_chunk_len == ENCRYPTED_CHUNK_LEN

\* ------------------------------------------------- crypto/v1.rs: Cryptor
\* The v1 cryptor as v1.rs has it: its functions return plain values, so a
\* call either returns or panics.  key is the MasterKey the Cryptor borrows.
Returns(v) == [kind |-> "returns", val |-> v]
Panics == [kind |-> "panics", val |-> <<>>]

\* The most bytes a modelled file name holds.
MaxNameLen == 3
\* Length of the synthetic IV AES-SIV puts in front of its ciphertext (16).
SIV_TAG_LEN == 4

\* util::hmac: HMAC-SHA256 of data under the master key's MAC subkey.
UtilHmac(data, key) == Hmac(key.mac_key, data)

\* Cryptor::aes_ctr: AES-CTR under the encryption subkey.
V1AesCtr(key, nonce, message) == AesCtr(key.enc_key, nonce, message)

\* Cryptor::chunk_hmac
V1ChunkHmac(key, data, header, chunk_number) ==
  Hmac(key.mac_key, header.nonce \o ToBeBytes(chunk_number) \o data)

\* slice::split_at(mid): panics when mid is past the end.
SplitAt(s, mid) ==
  IF mid < 0 \/ mid > Len(s) THEN Panics
  ELSE Returns([left |-> Take(s, mid), right |-> Drop(s, mid)])

V1EncryptHeader(key, header) ==
  LET buffer == header.nonce \o V1AesCtr(key, header.nonce, header.payload)
  IN buffer \o UtilHmac(buffer, key)

\* decrypt_header that hands back the stored payload as it is.
V1DecryptHeaderStillEncrypted(key, encrypted_header) ==
  LET outer == SplitAt(encrypted_header, NONCE_LEN + PAYLOAD_LEN)
      inner == SplitAt(outer.val.left, NONCE_LEN)
  IN IF outer.kind = "panics" THEN Panics
     ELSE Returns([nonce |-> inner.val.left, payload |-> inner.val.right])

\* decrypt_header: the length test and the MAC comparison have empty bodies
\* (TODO: Error), so neither decides anything.
V1DecryptHeader(key, encrypted_header) ==
  LET outer == SplitAt(encrypted_header, NONCE_LEN + PAYLOAD_LEN)
      nonce_and_payload == outer.val.left
      inner == SplitAt(nonce_and_payload, NONCE_LEN)
      nonce == inner.val.left
      payload == V1AesCtr(key, nonce, inner.val.right)
  IN IF outer.kind = "panics" THEN Panics
     ELSE Returns([nonce |-> nonce, payload |-> payload])

\* encrypt_chunk: the size test has an empty body; the chunk's nonce is the
\* header's.  debug: the build keeps debug_assert!.
V1EncryptChunk(key, chunk, header, chunk_number, debug) ==
  LET nonce_and_chunk == header.nonce \o V1AesCtr(key, header.nonce, chunk)
      buffer == nonce_and_chunk
                  \o V1ChunkHmac(key, nonce_and_chunk, header, chunk_number)
  IN IF debug /\ Len(buffer) > ENCRYPTED_CHUNK_LEN THEN Panics
     ELSE Returns(buffer)

\* decrypt_chunk that decrypts the nonce along with the chunk.
V1DecryptChunkWithNonce(key, encrypted_chunk, header, chunk_number) ==
  LET outer == SplitAt(encrypted_chunk, Len(encrypted_chunk) - MAC_LEN)
  IN IF outer.kind = "panics" THEN Panics
     ELSE IF Len(outer.val.left) < NONCE_LEN THEN Panics
     ELSE Returns(V1AesCtr(key, Take(outer.val.left, NONCE_LEN), outer.val.left))

\* decrypt_chunk: the size test and the MAC comparison have empty bodies.
V1DecryptChunk(key, encrypted_chunk, header, chunk_number) ==
  LET outer == SplitAt(encrypted_chunk, Len(encrypted_chunk) - MAC_LEN)
      nonce_and_chunk == outer.val.left
      inner == SplitAt(nonce_and_chunk, NONCE_LEN)
  IN IF outer.kind = "panics" THEN Panics
     ELSE IF inner.kind = "panics" THEN Panics
     ELSE Returns(V1AesCtr(key, inner.val.left, inner.val.right))

\* ---------------------------------------------- crypto/v1.rs: file names
\* An octet: what a u8 of a SIV ciphertext or of a decoded name holds.
OctetMod == 256

\* The block cipher under S2V and CTR, as a keyed digest of octets of two
\* octets' width: the value of the polynomial with the octets as
\* coefficients at a point the round picks, modulo a prime.  Two inputs of
\* one length that differ in one octet, or in the key alone, never have the
\* same digest.
SivPrime == (2 ^ 16) - 15
SivPoint(round) == OctetMod + 1 + 2 * round
RECURSIVE SivDigest(_, _, _)
SivDigest(round, acc, octets) ==
  IF octets = <<>> THEN acc
  ELSE SivDigest(round, (acc * SivPoint(round) + Head(octets) + 1) % SivPrime,
                 Tail(octets))

\* S2V of AES-SIV under the MAC subkey: the synthetic IV, every octet of it
\* depending on the one associated-data item and on the whole plaintext.
\* Each round's digest gives two octets of it.
SivTag(mac_key, associated_data, plaintext) ==
  LET input == <<Len(associated_data)>> \o associated_data \o plaintext
  IN [i \in 1 .. SIV_TAG_LEN |->
        LET digest == SivDigest((i + 1) \div 2, mac_key + 1, input)
        IN IF i % 2 = 1 THEN digest \div OctetMod ELSE digest % OctetMod]

\* The CTR keystream of AES-SIV under the encryption subkey, started at iv.
SivKeyStream(enc_key, iv, i) ==
  SivDigest(1, enc_key + 1, <<i>> \o iv) % OctetMod

\* Aes256Siv::encrypt([associated_data], plaintext): IV, then ciphertext.
SivEncrypt(mac_key, enc_key, associated_data, plaintext) ==
  LET iv == SivTag(mac_key, associated_data, plaintext)
  IN iv \o [i \in 1 .. Len(plaintext) |->
              (plaintext[i] + SivKeyStream(enc_key, iv, i)) % OctetMod]

\* Aes256Siv::decrypt([associated_data], ciphertext): Err when the
\* ciphertext is shorter than an IV or the recomputed IV differs.
SivDecrypt(mac_key, enc_key, associated_data, ciphertext) ==
  IF Len(ciphertext) < SIV_TAG_LEN THEN Err("aead::Error")
  ELSE LET iv == Take(ciphertext, SIV_TAG_LEN)
           body == Drop(ciphertext, SIV_TAG_LEN)
           plaintext == [i \in 1 .. Len(body) |->
                           (body[i] + OctetMod - SivKeyStream(enc_key, iv, i))
                             % OctetMod]
       IN IF SivTag(mac_key, associated_data, plaintext) = iv
          THEN Ok(plaintext) ELSE Err("aead::Error")

\* Aes256Siv::new(key): the first half of the key is S2V's, the second
\* half the CTR's.  A subkey is one unit of the model's key.
SivNew(siv_key) == [mac_key |-> siv_key[1], enc_key |-> siv_key[2]]

\* aes_siv_encrypt's key: the MAC subkey, then the encryption subkey.
V1SivEncryptKey(key) == <<key.mac_key, key.enc_key>>

\* aes_siv_decrypt's key, built the same way.
V1SivDecryptKey(key) == <<key.mac_key, key.enc_key>>

\* aes_siv_encrypt
V1AesSivEncrypt(key, plaintext, associated_data) ==
  LET siv == SivNew(V1SivEncryptKey(key))
  IN SivEncrypt(siv.mac_key, siv.enc_key, associated_data, plaintext)

\* aes_siv_decrypt: unwrap() of the library's result.
V1AesSivDecrypt(key, ciphertext, associated_data) ==
  LET siv == SivNew(V1SivDecryptKey(key))
      res == SivDecrypt(siv.mac_key, siv.enc_key, associated_data, ciphertext)
  IN IF res.ok THEN Returns(res.val) ELSE Panics

\* base64ct::Base64Url: the URL-safe alphabet, padded with "=".
Base64UrlAlphabet ==
  <<
    "A", "B", "C", "D", "E", "F", "G", "H", "I", "J", "K", "L", "M", "N", "O", "P",
    "Q", "R", "S", "T", "U", "V", "W", "X", "Y", "Z", "a", "b", "c", "d", "e", "f",
    "g", "h", "i", "j", "k", "l", "m", "n", "o", "p", "q", "r", "s", "t", "u", "v",
    "w", "x", "y", "z", "0", "1", "2", "3", "4", "5", "6", "7", "8", "9", "-", "_"
  >>
Base64Pad == "="
Base64Symbol(n) == Base64UrlAlphabet[n + 1]
Base64Value(c) ==
  IF \E n \in 0 .. 63 : Base64UrlAlphabet[n + 1] = c
  THEN CHOOSE n \in 0 .. 63 : Base64UrlAlphabet[n + 1] = c
  ELSE 0 - 1

\* Base64Url::encode_string: three octets to four symbols, the last group
\* filled up with padding.
RECURSIVE Base64UrlEncode(_)
Base64UrlEncode(b) ==
  IF Len(b) = 0 THEN <<>>
  ELSE IF Len(b) = 1
    THEN <<Base64Symbol(b[1] \div 4), Base64Symbol((b[1] % 4) * 16),
           Base64Pad, Base64Pad>>
  ELSE IF Len(b) = 2
    THEN <<Base64Symbol(b[1] \div 4),
           Base64Symbol((b[1] % 4) * 16 + b[2] \div 16),
           Base64Symbol((b[2] % 16) * 4), Base64Pad>>
  ELSE <<Base64Symbol(b[1] \div 4),
         Base64Symbol((b[1] % 4) * 16 + b[2] \div 16),
         Base64Symbol((b[2] % 16) * 4 + b[3] \div 64),
         Base64Symbol(b[3] % 64)>> \o Base64UrlEncode(Drop(b, 3))

\* The octets of the symbols s, none of them padding; a group of two or
\* three symbols closes the input.  Symbols outside the alphabet count -1.
RECURSIVE Base64Octets(_)
Base64Octets(s) ==
  LET v == [i \in 1 .. Len(s) |-> Base64Value(s[i])]
  IN IF Len(s) < 2 THEN <<>>
     ELSE IF Len(s) = 2 THEN <<v[1] * 4 + v[2] \div 16>>
     ELSE IF Len(s) = 3
       THEN <<v[1] * 4 + v[2] \div 16, (v[2] % 16) * 16 + v[3] \div 4>>
     ELSE <<v[1] * 4 + v[2] \div 16, (v[2] % 16) * 16 + v[3] \div 4,
            (v[3] % 4) * 64 + v[4]>> \o Base64Octets(Drop(s, 4))

\* Base64Url::decode_vec: Err(InvalidEncoding) on a length that is no
\* multiple of four, on a symbol outside the alphabet, on padding anywhere
\* but the end, and on a last group that does not encode back to itself.
Base64UrlDecode(s) ==
  LET pads == IF Len(s) >= 2 /\ s[Len(s)] = Base64Pad /\ s[Len(s) - 1] = Base64Pad
                THEN 2
              ELSE IF Len(s) >= 1 /\ s[Len(s)] = Base64Pad THEN 1 ELSE 0
      symbols == Take(s, Len(s) - pads)
      octets == Base64Octets(symbols)
  IN IF Len(s) % 4 # 0 THEN Err("InvalidEncoding")
     ELSE IF \E i \in 1 .. Len(symbols) : Base64Value(symbols[i]) < 0
       THEN Err("InvalidEncoding")
     ELSE IF Base64UrlEncode(octets) # s THEN Err("InvalidEncoding")
     ELSE Ok(octets)

\* A continuation byte of a UTF-8 sequence.
Utf8Cont(b) == b >= 128 /\ b <= 191

\* The length of the well-formed UTF-8 sequence that opens bytes, 0 when
\* none does: no overlong form, no surrogate, nothing above U+10FFFF.
Utf8SeqLen(bytes) ==
  LET n == Len(bytes)
      b1 == bytes[1]
  IN IF n = 0 THEN 0
     ELSE IF b1 < 128 THEN 1
     ELSE IF b1 >= 194 /\ b1 <= 223
       THEN IF n >= 2 /\ Utf8Cont(bytes[2]) THEN 2 ELSE 0
     ELSE IF b1 >= 224 /\ b1 <= 239
       THEN IF /\ n >= 3
               /\ Utf8Cont(bytes[2])
               /\ Utf8Cont(bytes[3])
               /\ (b1 = 224 => bytes[2] >= 160)
               /\ (b1 = 237 => bytes[2] <= 159)
            THEN 3 ELSE 0
     ELSE IF b1 >= 240 /\ b1 <= 244
       THEN IF /\ n >= 4
               /\ Utf8Cont(bytes[2])
               /\ Utf8Cont(bytes[3])
               /\ Utf8Cont(bytes[4])
               /\ (b1 = 240 => bytes[2] >= 144)
               /\ (b1 = 244 => bytes[2] <= 143)
            THEN 4 ELSE 0
     ELSE 0

\* bytes is a run of well-formed UTF-8 sequences.
RECURSIVE Utf8Valid(_)
Utf8Valid(bytes) ==
  IF Len(bytes) = 0 THEN TRUE
  ELSE LET k == Utf8SeqLen(bytes)
       IN k > 0 /\ Utf8Valid(Drop(bytes, k))

\* String::from_utf8: the bytes themselves when they are well-formed
\* UTF-8, Err otherwise.
FromUtf8(bytes) ==
  IF Utf8Valid(bytes) THEN Ok(bytes) ELSE Err("FromUtf8Error")

\* encrypt_name that leaves the parent directory out of the SIV.
V1EncryptNameNoDir(key, name, parent_dir_id) ==
  Base64UrlEncode(V1AesSivEncrypt(key, name, <<>>))

\* encrypt_name: a name and a directory id are the bytes of their text.
V1EncryptName(key, name, parent_dir_id) ==
  Base64UrlEncode(V1AesSivEncrypt(key, name, parent_dir_id))

\* decrypt_name: each of its three results is unwrapped.
V1DecryptName(key, encrypted_name, parent_dir_id) ==
  LET decoded == Base64UrlDecode(encrypted_name)
      ciphertext == V1AesSivDecrypt(key, decoded.val, parent_dir_id)
      text == FromUtf8(ciphertext.val)
  IN IF ~decoded.ok THEN Panics
     ELSE IF ciphertext.kind = "panics" THEN Panics
     ELSE IF ~text.ok THEN Panics
     ELSE Returns(text.val)

\* ----------------------------------------------------------------- util
\* util::get_cleartext_size: strip the header, then the per-chunk overhead
\* of every full encrypted chunk and of the final partial one.
GetCleartextSize(ciphertext_size) ==
  LET enc_chunks_len == SatSub(ciphertext_size, encrypted_header_len)
      num_full_chunks == enc_chunks_len \div max_encrypted_chunk_len
      remainder == enc_chunks_len % max_encrypted_chunk_len
  IN num_full_chunks * max_chunk_len
       + SatSub(remainder, max_encrypted_chunk_len - max_chunk_len)

\* util::try_read_exact on a file whose cursor is at pos: read until n bytes
\* are in or the end of the file; (filled, bytes read) and the new cursor.
TryReadExact(f, pos, n) ==
  LET data == IF pos >= Len(f) THEN <<>> ELSE SubSeq(f, pos + 1, Min(pos + n, Len(f)))
  IN [full |-> Len(data) = n, n |-> Len(data), data |-> data, pos |-> pos + Len(data)]

\* Write::write_all on a file whose cursor is at pos: overwrite in place,
\* growing the file when the data runs past its end (zero-filling a gap).
WriteAt(f, pos, data) ==
  LET padded == IF pos > Len(f) THEN f \o Fill(0, pos - Len(f)) ELSE f
  IN Take(padded, pos) \o data \o Drop(padded, pos + Len(data))

\* ------------------------------------------------------- EncryptedFile
CiphertextLen(f) == Len(f)
CleartextPos(pos) == GetCleartextSize(pos)
CleartextLen(f) == GetCleartextSize(CiphertextLen(f))

Start(n) == [kind |-> "Start", n |-> n]
End(n) == [kind |-> "End", n |-> n]
Current(n) == [kind |-> "Current", n |-> n]

\* What seek_inner hands back: the descriptor's new cursor and the value
\* returned, or a panic (an arithmetic overflow caught by a build with
\* overflow checks; the cursor is then where it was).
Sought(pos, ret) == [pos |-> pos, ret |-> ret, panic |-> FALSE]
Panicked(pos) == [pos |-> pos, ret |-> 0, panic |-> TRUE]

\* DesiredPos without the skip over the chunk's nonce.
DesiredPosNoSkip(n) ==
  encrypted_header_len + (n \div max_chunk_len) * max_encrypted_chunk_len
    + (n % max_chunk_len)

\* DesiredPos without the file header.
DesiredPosNoHeader(n) ==
  LET chunk_number == n \div max_chunk_len
      chunk_offset == n % max_chunk_len
      desired_pos == chunk_number * max_encrypted_chunk_len
  IN IF chunk_offset > 0
     THEN desired_pos + chunk_offset + (max_encrypted_chunk_len - max_chunk_len)
     ELSE desired_pos

\* The ciphertext position of cleartext offset n, before it is capped to the
\* end of the file; computed in unbounded integers.
DesiredPos(n) ==
  LET chunk_number == n \div max_chunk_len
      chunk_offset == n % max_chunk_len
      desired_pos == encrypted_header_len + chunk_number * max_encrypted_chunk_len
  IN IF chunk_offset > 0
     THEN desired_pos + chunk_offset + (max_encrypted_chunk_len - max_chunk_len)
     ELSE desired_pos

\* seek_inner, SeekFrom::Start(n).  checks: the build traps u64 overflow
\* (debug) instead of wrapping (release).
SeekStart(f, pos, n, checks) ==
  IF n = CleartextPos(pos) THEN Sought(pos, n)
  ELSE IF DesiredPos(n) > U64_MAX /\ checks THEN Panicked(pos)
  ELSE LET new_ciphertext_pos == Min(DesiredPos(n) % U64, CiphertextLen(f))
       IN Sought(new_ciphertext_pos, CleartextPos(new_ciphertext_pos))

\* The u64 handed to saturating_sub by SeekFrom::End(n): -n.max(0) as u64,
\* which Rust reads as (-(n.max(0))) as u64.
EndOffset(n) == AsU64(0 - Max(n, 0))

SeekEnd(f, pos, n, checks) ==
  LET cleartext_size == CleartextLen(f)
  IN SeekStart(f, pos, SatSub(cleartext_size, EndOffset(n)), checks)

\* -n as u64 for n < 0; negating i64::MIN overflows, and wraps to itself
\* where the build does not trap it.
NegAsU64(n) == AsU64(WrapI64(0 - n))

SeekCurrent(f, pos, n, checks) ==
  LET cleartext_pos == CleartextPos(pos)
  IN IF n < 0
     THEN IF n = I64_MIN /\ checks THEN Panicked(pos)
          ELSE SeekStart(f, pos, SatSub(cleartext_pos, NegAsU64(n)), checks)
     ELSE IF n = 0 THEN Sought(pos, cleartext_pos)
     ELSE SeekStart(f, pos, Min(SatAdd(cleartext_pos, n), CleartextLen(f)), checks)

SeekInner(f, pos, sf, checks) ==
  CASE sf.kind = "Start" -> SeekStart(f, pos, sf.n, checks)
    [] sf.kind = "End" -> SeekEnd(f, pos, sf.n, checks)
    [] sf.kind = "Current" -> SeekCurrent(f, pos, sf.n, checks)

\* What read and write hand back: the file, the descriptor's cursor, the
\* bytes read (read) or the count written (write), and the error, if any.
Done(f, pos, data, n) == [file |-> f, pos |-> pos, data |-> data, n |-> n, err |-> "none"]
\* A failing call that has already handed a byte to its caller.
FailedAfterCopy(f, pos, e) ==
  [file |-> f, pos |-> pos, data |-> <<0>>, n |-> 1, err |-> e]
\* A failing call that cuts the file off at the cursor.
FailedCutShort(f, pos, e) ==
  [file |-> Take(f, pos), pos |-> pos, data |-> <<>>, n |-> 0, err |-> e]
Failed(f, pos, e) == [file |-> f, pos |-> pos, data |-> <<>>, n |-> 0, err |-> e]

\* <[u8] as Read>::read and <[u8] as Write>::write: as many bytes as both
\* sides hold.
SliceCopyLen(room, want) == Min(room, want)

\* Read::read for EncryptedFile, into a buffer of buf_len bytes.
Read(f, pos, header, buf_len, checks) ==
  IF buf_len = 0 \/ pos = CiphertextLen(f) THEN Done(f, pos, <<>>, 0)
  ELSE
    LET current_pos == CleartextPos(pos)
        chunk_number == current_pos \div max_chunk_len
        chunk_offset == current_pos % max_chunk_len
        chunk_start == chunk_number * max_chunk_len
        at_chunk == IF chunk_offset > 0
                    THEN SeekStart(f, pos, chunk_start, checks).pos
                    ELSE pos
        got == TryReadExact(f, at_chunk, max_encrypted_chunk_len)
        chunk == DecryptChunk(got.data, header, chunk_number)
    IN IF ~chunk.ok THEN Failed(f, got.pos, chunk.err)
       ELSE IF chunk_offset > Len(chunk.val) THEN Failed(f, got.pos, "panic")
       ELSE
         LET bytes_read == SliceCopyLen(Len(chunk.val) - chunk_offset, buf_len)
             data == SubSeq(chunk.val, chunk_offset + 1, chunk_offset + bytes_read)
             after == SeekStart(f, got.pos, current_pos + bytes_read, checks)
         IN Done(f, after.pos, data, bytes_read)

\* Overwrite that copies to the chunk's start whatever the offset.
OverwriteAtStart(chunk, offset, data) ==
  data \o Drop(chunk, Len(data))

\* chunk with the bytes from offset on overwritten by data.
Overwrite(chunk, offset, data) ==
  Take(chunk, offset) \o data \o Drop(chunk, offset + Len(data))

\* TruncLen that cuts the chunk where the copy ended.
TruncLenAtCopyEnd(old_len, chunk_offset, bytes_written) ==
  chunk_offset + bytes_written

\* The length the rewritten tail chunk is truncated to.
TruncLen(old_len, chunk_offset, bytes_written) ==
  Max(old_len, chunk_offset + bytes_written)

\* The cleartext of the replacement chunk and the count of bytes of buf it
\* takes in, from what try_read_exact got at the chunk's start: Ok([chunk,
\* bytes_written]) or the decryption error.
Replacement(got, header, chunk_number, chunk_offset, buf) ==
  IF ~got.full /\ got.n = 0
  THEN \* at EOF
       LET chunk == Take(buf, max_chunk_len)
       IN Ok([chunk |-> chunk, bytes_written |-> Len(chunk)])
  ELSE IF ~got.full
  THEN \* within the last chunk
       LET old == DecryptChunk(got.data, header, chunk_number)
           old_len == Len(old.val)
           resized == old.val \o Fill(0, max_chunk_len - old_len)
           bytes_written == SliceCopyLen(max_chunk_len - chunk_offset, Len(buf))
           chunk == Overwrite(resized, chunk_offset, Take(buf, bytes_written))
       IN IF ~old.ok THEN old
          ELSE Ok([chunk |-> Take(chunk, TruncLen(old_len, chunk_offset, bytes_written)),
                   bytes_written |-> bytes_written])
  ELSE IF chunk_offset = 0 /\ Len(buf) >= max_chunk_len
  THEN \* a whole chunk, overwritten whole
       LET chunk == Take(buf, max_chunk_len)
       IN Ok([chunk |-> chunk, bytes_written |-> Len(chunk)])
  ELSE \* a whole chunk, spliced into
       LET old == DecryptChunk(got.data, header, chunk_number)
           bytes_written == SliceCopyLen(Len(old.val) - chunk_offset, Len(buf))
       IN IF ~old.ok THEN old
          ELSE Ok([chunk |-> Overwrite(old.val, chunk_offset, Take(buf, bytes_written)),
                   bytes_written |-> bytes_written])

\* Write::write for EncryptedFile; r is the random nonce byte of the new
\* encrypted chunk.
Write(f, pos, header, buf, r, checks) ==
  IF buf = <<>> THEN Done(f, pos, <<>>, 0)
  ELSE
    LET current_pos == CleartextPos(pos)
        chunk_number == current_pos \div max_chunk_len
        chunk_offset == current_pos % max_chunk_len
        chunk_start == chunk_number * max_chunk_len
        at_chunk == IF chunk_offset > 0
                    THEN SeekStart(f, pos, chunk_start, checks).pos
                    ELSE pos
        got == TryReadExact(f, at_chunk, max_encrypted_chunk_len)
        new == Replacement(got, header, chunk_number, chunk_offset, buf)
        replacement_chunk == EncryptChunk(new.val.chunk, header, chunk_number, r)
    IN IF ~new.ok THEN Failed(f, got.pos, new.err)
       ELSE IF ~replacement_chunk.ok THEN Failed(f, got.pos, replacement_chunk.err)
       ELSE
         LET back == SeekStart(f, got.pos, chunk_start, checks)
             written == WriteAt(f, back.pos, replacement_chunk.val)
             end_pos == back.pos + Len(replacement_chunk.val)
             after == SeekStart(written, end_pos,
                                current_pos + new.val.bytes_written, checks)
         IN Done(written, after.pos, <<>>, new.val.bytes_written)

\* Read::read_exact on a fresh descriptor: Ok with the cursor after the n
\* bytes, or UnexpectedEof with the cursor at the end of the file.
ReadExact(f, n) ==
  IF Len(f) >= n THEN [ok |-> TRUE, data |-> Take(f, n), pos |-> n]
  ELSE [ok |-> FALSE, data |-> <<>>, pos |-> Len(f)]

OpenAlwaysNew(present, f, r, k) ==
  [file |-> WriteAt(f, 0, EncryptHeader(NewHeader(r, k))),
   pos |-> encrypted_header_len, header |-> NewHeader(r, k), err |-> "none"]
\* EncryptedFile::open on the path: present says it names a file, whose
\* bytes are f; r and k are the random bytes a new header would be made of.
\* File::options().read(true).write(true).open(path) creates nothing.
Open(present, f, r, k) ==
  LET got == ReadExact(f, encrypted_header_len)
      header == DecryptHeader(got.data)
      new_header == NewHeader(r, k)
  IN IF ~present
     THEN [file |-> f, pos |-> 0, header |-> NoHeader, err |-> "NotFound"]
     ELSE IF got.ok
     THEN IF header.ok
          THEN [file |-> f, pos |-> got.pos, header |-> header.val, err |-> "none"]
          ELSE [file |-> f, pos |-> got.pos, header |-> NoHeader, err |-> header.err]
     ELSE [file |-> WriteAt(f, got.pos, EncryptHeader(new_header)),
           pos |-> got.pos + encrypted_header_len,
           header |-> new_header, err |-> "none"]

\* File::create_new(&path): O_CREAT | O_EXCL makes the empty file, or fails
\* on a path that names one already, whatever it holds.
FileCreateNew(present, f) ==
  IF present THEN [present |-> TRUE, file |-> f, err |-> "AlreadyExists"]
  ELSE [present |-> TRUE, file |-> <<>>, err |-> "none"]

\* EncryptedFile::create_new: File::create_new(&path)?, then open.
CreateNew(present, f, r, k) ==
  LET made == FileCreateNew(present, f)
      res == Open(made.present, made.file, r, k)
  IN IF made.err # "none"
     THEN [present |-> made.present, file |-> made.file, pos |-> 0,
           header |-> NoHeader, err |-> made.err]
     ELSE [present |-> made.present, file |-> res.file, pos |-> res.pos,
           header |-> res.header, err |-> res.err]

\* -------------------------------------------- fs/fuse.rs: read and write
\* The one value of a result, computed once.
The(results) == CHOOSE r \in results : TRUE

\* debug_assert_eq!(pos, offset as u64): in a build that keeps debug
\* assertions the handler goes on only if the seek returned the offset.
OffsetAsserted(pos, offset, debug) == ~debug \/ pos = offset

\* try_read (shared) and try_write (exclusive) on a descriptor while held is
\* the strongest lock on the file's other descriptors.
Granted(kind, held) ==
  IF kind = "exclusive" THEN held = "none" ELSE held # "exclusive"

\* An Option: None is the empty sequence, Some(v) the sequence of v.
None == <<>>
Some(v) == <<v>>

\* FuseFileSystem::setattr on a file that is not the root: the mode, if
\* there is one, goes to fs.set_permissions, the times to fs.set_times, and
\* the reply is the fs.dir_entry of the path, whose size is the cleartext
\* size of the file.  The size argument is not read.
FuseSetattr(f, perm, mode, size) ==
  [file |-> f,
   perm |-> IF mode = None THEN perm ELSE mode[1],
   size |-> CleartextLen(f),
   err |-> "none"]

\* ------------------------------------ fs: EncryptedFileSystem (facade)
\* A cleartext path is the sequence of its segments, the root the empty
\* one; a name is a number, and names compare as the numbers do.
DirNames == {1, 2, 3}
ChildNames == {1}
VaultPaths == {<<n>> : n \in DirNames} \cup {<<1, c>> : c \in ChildNames}
FileKind == {"File", "Directory", "Symlink"}

\* The vault holds a kind, or "none", for each cleartext path.
EmptyVault == [p \in VaultPaths |-> "none"]
Exists(vault, path) == path \in DOMAIN vault /\ vault[path] # "none"
IsDir(vault, path) ==
  path = <<>> \/ (path \in DOMAIN vault /\ vault[path] = "Directory")
Under(path, dir) ==
  Len(path) > Len(dir) /\ SubSeq(path, 1, Len(dir)) = dir

\* The children of the directory at path whose name is at least n, in
\* ascending order of the cleartext name.
RECURSIVE EntriesFrom(_, _, _)
EntriesFrom(vault, path, n) ==
  IF n \notin DirNames THEN <<>>
  ELSE IF Exists(vault, Append(path, n))
    THEN <<[path |-> Append(path, n), kind |-> vault[Append(path, n)]]>>
           \o EntriesFrom(vault, path, n + 1)
  ELSE EntriesFrom(vault, path, n + 1)

\* EncryptedFileSystem::dir_entries: the ordered mapping from the cleartext
\* child paths to their entries, owned by the caller.
FsDirEntries(vault, path) ==
  IF IsDir(vault, path)
  THEN [err |-> "none", entries |-> EntriesFrom(vault, path, 1)]
  ELSE [err |-> "NotADirectory", entries |-> <<>>]

\* EncryptedFileSystem::dir_entry: the entry of the path, Err when the path
\* names nothing.
FsDirEntry(vault, path) ==
  IF Exists(vault, path) THEN [err |-> "none", kind |-> vault[path]]
  ELSE [err |-> "NotFound", kind |-> "none"]

\* mkdir, mknod and symlink: a new entry of the kind under parent.
FsCreate(vault, parent, name, kind) ==
  IF ~IsDir(vault, parent) THEN [err |-> "NotFound", vault |-> vault]
  ELSE IF Append(parent, name) \notin DOMAIN vault
    THEN [err |-> "Io", vault |-> vault]
  ELSE IF Exists(vault, Append(parent, name))
    THEN [err |-> "AlreadyExists", vault |-> vault]
  ELSE [err |-> "none",
        vault |-> [vault EXCEPT ![Append(parent, name)] = kind]]
FsMkdir(vault, parent, name) == FsCreate(vault, parent, name, "Directory")
FsMknod(vault, parent, name) == FsCreate(vault, parent, name, "File")
FsSymlink(vault, parent, name) == FsCreate(vault, parent, name, "Symlink")

\* unlink: the entry goes if it is there and is no directory.
FsUnlink(vault, parent, name) ==
  IF ~Exists(vault, Append(parent, name)) THEN [err |-> "NotFound", vault |-> vault]
  ELSE IF vault[Append(parent, name)] = "Directory"
    THEN [err |-> "Io", vault |-> vault]
  ELSE [err |-> "none",
        vault |-> [vault EXCEPT ![Append(parent, name)] = "none"]]

\* rmdir: the bucket of the target must hold nothing but dirid.c9r.
FsRmdir(vault, parent, name) ==
  IF ~IsDir(vault, Append(parent, name)) \/ ~Exists(vault, Append(parent, name))
    THEN [err |-> "NotFound", vault |-> vault]
  ELSE IF EntriesFrom(vault, Append(parent, name), 1) # <<>>
    THEN [err |-> "NotEmpty", vault |-> vault]
  ELSE [err |-> "none",
        vault |-> [vault EXCEPT ![Append(parent, name)] = "none"]]

\* Where a path at or under src is once src has become dst.
Moved(path, src, dst) == dst \o SubSeq(path, Len(src) + 1, Len(path))
AtOrUnder(path, dir) == path = dir \/ Under(path, dir)

\* rename: the entry and all beneath it move; the target name is free.
FsRename(vault, old_parent, name, new_parent, new_name) ==
  LET src == Append(old_parent, name)
      dst == Append(new_parent, new_name)
  IN IF ~Exists(vault, src) \/ ~IsDir(vault, new_parent)
       THEN [err |-> "NotFound", vault |-> vault]
     ELSE IF Exists(vault, dst) THEN [err |-> "AlreadyExists", vault |-> vault]
     ELSE IF AtOrUnder(dst, src)
               \/ \E p \in DOMAIN vault :
                    /\ AtOrUnder(p, src) /\ vault[p] # "none"
                    /\ Moved(p, src, dst) \notin DOMAIN vault
       THEN [err |-> "Io", vault |-> vault]
     ELSE [err |-> "none",
           vault |-> [p \in DOMAIN vault |->
                        IF AtOrUnder(p, dst)
                          THEN IF Moved(p, dst, src) \in DOMAIN vault
                               THEN vault[Moved(p, dst, src)] ELSE "none"
                        ELSE IF AtOrUnder(p, src) THEN "none"
                        ELSE vault[p]]]

\* ------------------------------------------- fs/fuse/dir_tree.rs: DirTree
\* The inode table: the paths that have an inode.  A path keeps one number.
FUSE_ROOT_ID == 1
InodeOf(path) ==
  IF path = <<>> THEN FUSE_ROOT_ID
  ELSE IF Len(path) = 1 THEN FUSE_ROOT_ID + path[1]
  ELSE FUSE_ROOT_ID + Cardinality(DirNames) * path[2] + path[1]
Inodes == {InodeOf(p) : p \in VaultPaths \cup {<<>>}}
NewTree == {<<>>}
Known(tree, ino) == \E p \in tree : InodeOf(p) = ino
GetPath(tree, ino) == CHOOSE p \in tree : InodeOf(p) = ino
InsertPath(tree, path) == tree \cup {path}
TreeRemove(tree, parent, name) ==
  IF Known(tree, parent)
  THEN {p \in tree : ~AtOrUnder(p, Append(GetPath(tree, parent), name))}
  ELSE tree
TreeRename(tree, parent, name, newparent, newname) ==
  IF Known(tree, parent) /\ Known(tree, newparent)
  THEN LET src == Append(GetPath(tree, parent), name)
           dst == Append(GetPath(tree, newparent), newname)
       IN {p \in tree : ~AtOrUnder(p, src) /\ ~AtOrUnder(p, dst)}
            \cup {Moved(p, src, dst) : p \in {q \in tree : AtOrUnder(q, src)}}
  ELSE tree

\* ------------------------------------------ fs/fuse.rs: directories
\* FuseFileSystem::new: nothing is open, the next handle is 0.  issued is
\* the set of the handles replied so far and released that of the file
\* handles a release has closed, both kept for the claims.
NoReply ==
  [op |-> "none", err |-> "none", parent |-> 0, name |-> 0, fh |-> 0,
   offset |-> 0, room |-> 0, page |-> <<>>, ino |-> 0, kind |-> "none",
   size |-> 0, asked |-> <<>>]
NoPager == [fh |-> 0, on |-> FALSE, next |-> 0, got |-> <<>>, done |-> FALSE]
\* No read or write request is under way.
NoRequest ==
  [op |-> "none", fh |-> 0, offset |-> 0, size |-> 0, data |-> <<>>,
   done |-> 0, got |-> <<>>, rs |-> <<>>, len0 |-> 0, path |-> <<>>]
FuseNew(vault) ==
  [vault |-> vault, tree |-> NewTree, open_dirs |-> <<>>,
   open_files |-> <<>>, next_handle |-> 0, issued |-> {}, released |-> {},
   reply |-> NoReply, pager |-> NoPager, req |-> NoRequest]
NewFuse == FuseNew(EmptyVault)

\* next_handle.fetch_add(1, Ordering::SeqCst): the counter after the call.
FetchAddSame(n) == n
FetchAdd(n) == (n + 1) % U64

\* reply.error(err), reply.ok() and reply.entry(..) to a call on a name.
Replied(op, err, parent, name) ==
  [NoReply EXCEPT !.op = op, !.err = err, !.parent = parent, !.name = name]

\* FuseFileSystem::lookup: a name that is there under a known parent gets an
\* inode, which the reply carries with the entry's kind; anything else is
\* answered ENOENT.
FuseLookup(fs, parent, name) ==
  IF Known(fs.tree, parent)
  THEN LET target_path == Append(GetPath(fs.tree, parent), name)
           entry == FsDirEntry(fs.vault, target_path)
       IN IF entry.err = "none"
          THEN [fs EXCEPT !.tree = InsertPath(fs.tree, target_path),
                          !.reply = [Replied("lookup", "none", parent, name) EXCEPT
                                       !.ino = InodeOf(target_path),
                                       !.kind = entry.kind]]
          ELSE [fs EXCEPT !.reply = Replied("lookup", "ENOENT", parent, name)]
  ELSE [fs EXCEPT !.reply = Replied("lookup", "ENOENT", parent, name)]

\* The Ok and Err arms of mknod, mkdir and symlink: the new path gets an
\* inode, or the reply is EIO.
FuseCreated(fs, op, parent, name, made) ==
  IF made.err = "none"
  THEN [fs EXCEPT !.vault = made.vault,
                  !.tree = InsertPath(fs.tree, Append(GetPath(fs.tree, parent), name)),
                  !.reply = Replied(op, "none", parent, name)]
  ELSE [fs EXCEPT !.reply = Replied(op, "EIO", parent, name)]

FuseMknod(fs, parent, name) ==
  IF Known(fs.tree, parent)
  THEN FuseCreated(fs, "mknod", parent, name,
                   FsMknod(fs.vault, GetPath(fs.tree, parent), name))
  ELSE [fs EXCEPT !.reply = Replied("mknod", "ENOENT", parent, name)]

FuseMkdir(fs, parent, name) ==
  IF Known(fs.tree, parent)
  THEN FuseCreated(fs, "mkdir", parent, name,
                   FsMkdir(fs.vault, GetPath(fs.tree, parent), name))
  ELSE [fs EXCEPT !.reply = Replied("mkdir", "ENOENT", parent, name)]

FuseSymlink(fs, parent, name) ==
  IF Known(fs.tree, parent)
  THEN FuseCreated(fs, "symlink", parent, name,
                   FsSymlink(fs.vault, GetPath(fs.tree, parent), name))
  ELSE [fs EXCEPT !.reply = Replied("symlink", "ENOENT", parent, name)]

FuseRemovedEither(fs, op, parent, name, gone) ==
  [fs EXCEPT !.vault = gone.vault,
             !.tree = TreeRemove(fs.tree, parent, name),
             !.reply = Replied(op, IF gone.err # "none" THEN "EIO" ELSE "none",
                               parent, name)]
\* The Err and Ok arms of unlink and of rmdir's fs.rmdir.
FuseRemoved(fs, op, parent, name, gone) ==
  IF gone.err # "none"
  THEN [fs EXCEPT !.reply = Replied(op, "EIO", parent, name)]
  ELSE [fs EXCEPT !.vault = gone.vault,
                  !.tree = TreeRemove(fs.tree, parent, name),
                  !.reply = Replied(op, "none", parent, name)]

FuseUnlink(fs, parent, name) ==
  IF Known(fs.tree, parent)
  THEN FuseRemoved(fs, "unlink", parent, name,
                   FsUnlink(fs.vault, GetPath(fs.tree, parent), name))
  ELSE [fs EXCEPT !.reply = Replied("unlink", "ENOENT", parent, name)]

FuseRmdirUnchecked(fs, parent, name) ==
  IF Known(fs.tree, parent)
  THEN LET parent_path == GetPath(fs.tree, parent)
           listed == FsDirEntries(fs.vault, Append(parent_path, name))
       IN IF listed.err # "none"
            THEN [fs EXCEPT !.reply = Replied("rmdir", "EIO", parent, name)]
          ELSE FuseRemoved(fs, "rmdir", parent, name,
                           FsRmdir(fs.vault, parent_path, name))
  ELSE [fs EXCEPT !.reply = Replied("rmdir", "ENOENT", parent, name)]
\* FuseFileSystem::rmdir: list the target; a listing that is not empty is
\* answered ENOTEMPTY before anything is removed.
FuseRmdir(fs, parent, name) ==
  IF Known(fs.tree, parent)
  THEN LET parent_path == GetPath(fs.tree, parent)
           listed == FsDirEntries(fs.vault, Append(parent_path, name))
       IN IF listed.err # "none"
            THEN [fs EXCEPT !.reply = Replied("rmdir", "EIO", parent, name)]
          ELSE IF listed.entries # <<>>
            THEN [fs EXCEPT !.reply = Replied("rmdir", "ENOTEMPTY", parent, name)]
          ELSE FuseRemoved(fs, "rmdir", parent, name,
                           FsRmdir(fs.vault, parent_path, name))
  ELSE [fs EXCEPT !.reply = Replied("rmdir", "ENOENT", parent, name)]

FuseRename(fs, parent, name, newparent, newname) ==
  IF ~Known(fs.tree, parent) \/ ~Known(fs.tree, newparent)
  THEN [fs EXCEPT !.reply = Replied("rename", "ENOENT", parent, name)]
  ELSE LET moved == FsRename(fs.vault, GetPath(fs.tree, parent), name,
                             GetPath(fs.tree, newparent), newname)
       IN IF moved.err # "none"
          THEN [fs EXCEPT !.reply = Replied("rename", "EIO", parent, name)]
          ELSE [fs EXCEPT !.vault = moved.vault,
                          !.tree = TreeRename(fs.tree, parent, name, newparent, newname),
                          !.reply = Replied("rename", "none", parent, name)]

\* FuseFileSystem::opendir: the listing of the moment is stored under a
\* new handle.
FuseOpendir(fs, ino) ==
  IF ~Known(fs.tree, ino)
  THEN [fs EXCEPT !.reply = [NoReply EXCEPT !.op = "opendir", !.err = "ENOENT",
                                            !.parent = ino]]
  ELSE LET listed == FsDirEntries(fs.vault, GetPath(fs.tree, ino))
           handle == fs.next_handle
       IN IF listed.err # "none"
          THEN [fs EXCEPT !.reply = [NoReply EXCEPT !.op = "opendir", !.err = "EIO",
                                                    !.parent = ino]]
          ELSE [fs EXCEPT !.next_handle = FetchAdd(handle),
                          !.open_dirs = [h \in DOMAIN fs.open_dirs \cup {handle} |->
                                           IF h = handle THEN listed.entries
                                           ELSE fs.open_dirs[h]],
                          !.reply = [NoReply EXCEPT !.op = "opendir", !.parent = ino,
                                                    !.fh = handle]]

\* The entries a readdir on the handle walks over.
ReaddirEntriesLive(fs, fh) == FsDirEntries(fs.vault, <<>>).entries
ReaddirEntries(fs, fh) == fs.open_dirs[fh]

\* The offset readdir attaches to the entry at index i: (i + 1) as i64.
EntryOffsetSame(i) == i
EntryOffset(i) == i + 1

\* FuseFileSystem::readdir: the entries from index offset on, each looked
\* up in the inode table and added to the reply until the reply is full;
\* room is the number of entries the reply buffer takes.  The entry that
\* found the buffer full has been given an inode and is not in the reply.
FuseReaddir(fs, fh, offset, room) ==
  IF fh \notin DOMAIN fs.open_dirs
  THEN [fs EXCEPT !.reply = [NoReply EXCEPT !.op = "readdir", !.err = "ENOENT",
                                            !.fh = fh, !.offset = offset,
                                            !.room = room]]
  ELSE LET entries == ReaddirEntries(fs, fh)
           seen == {i \in offset .. (Len(entries) - 1) : i <= offset + room}
           added == {i \in seen : i < offset + room}
       IN [fs EXCEPT !.tree = fs.tree \cup {entries[i + 1].path : i \in seen},
                     !.reply = [NoReply EXCEPT
                                  !.op = "readdir", !.fh = fh, !.offset = offset,
                                  !.room = room,
                                  !.page = [k \in 1 .. Cardinality(added) |->
                                              [inode |-> InodeOf(entries[offset + k].path),
                                               offset |-> EntryOffset(offset + k - 1),
                                               kind |-> entries[offset + k].kind,
                                               name |-> entries[offset + k].path[Len(entries[offset + k].path)]]]]]

\* FuseFileSystem::releasedir: the handle's listing is dropped.
FuseReleasedir(fs, fh) ==
  IF fh \in DOMAIN fs.open_dirs
  THEN [fs EXCEPT !.open_dirs = [h \in DOMAIN fs.open_dirs \ {fh} |-> fs.open_dirs[h]],
                  !.reply = [NoReply EXCEPT !.op = "releasedir", !.fh = fh]]
  ELSE [fs EXCEPT !.reply = [NoReply EXCEPT !.op = "releasedir", !.err = "ENOENT",
                                            !.fh = fh]]

\* ------------------------------------------ fs/fuse.rs: file handles
\* A handler that may write to the ciphertext file f hands back the
\* FuseFileSystem and the file.
Served(fs, f) == [fs |-> fs, file |-> f]
FileReply(op, err, fh) == [NoReply EXCEPT !.op = op, !.err = err, !.fh = fh]

\* EncryptedFileSystem::open_file: EncryptedFile::open on the ciphertext
\* file of the path, which must be a file.
FsOpenFile(vault, f, path, r, k, held) ==
  IF ~(Exists(vault, path) /\ vault[path] = "File")
  THEN [file |-> f, pos |-> 0, header |-> NoHeader, err |-> "NotFound"]
  ELSE IF ~Granted("exclusive", held)
    THEN [file |-> f, pos |-> 0, header |-> NoHeader, err |-> "Busy"]
  ELSE Open(TRUE, f, r, k)

\* The Ok and Err arms of open's and create's match on fs.open_file: the
\* stream goes into open_files under a new handle.
FuseOpened(fs, op, got) ==
  IF got.err # "none"
  THEN Served([fs EXCEPT !.reply = FileReply(op, "EIO", 0)], got.file)
  ELSE Served([fs EXCEPT
                 !.next_handle = FetchAdd(fs.next_handle),
                 !.open_files = [h \in DOMAIN fs.open_files \cup {fs.next_handle} |->
                                   IF h = fs.next_handle
                                   THEN [pos |-> got.pos, header |-> got.header]
                                   ELSE fs.open_files[h]],
                 !.reply = FileReply(op, "none", fs.next_handle)],
              got.file)

\* FuseFileSystem::open.
FuseOpen(fs, f, ino, r, k, held) ==
  IF ~Known(fs.tree, ino)
  THEN Served([fs EXCEPT !.reply = FileReply("open", "ENOENT", 0)], f)
  ELSE FuseOpened(fs, "open",
                  FsOpenFile(fs.vault, f, GetPath(fs.tree, ino), r, k, held))

\* FuseFileSystem::create up to the inode of the new path: fs.mknod makes
\* the empty ciphertext file, or the handler replies at once.
FuseCreateFh(fs, parent, name) ==
  IF ~Known(fs.tree, parent)
  THEN [fs EXCEPT !.reply = FileReply("create", "ENOENT", 0)]
  ELSE LET path == Append(GetPath(fs.tree, parent), name)
           made == FsMknod(fs.vault, GetPath(fs.tree, parent), name)
       IN IF made.err # "none"
          THEN [fs EXCEPT !.reply = FileReply("create", "EIO", 0)]
          ELSE [fs EXCEPT !.vault = made.vault,
                          !.tree = InsertPath(fs.tree, path),
                          !.req = [NoRequest EXCEPT !.op = "create", !.path = path]]

\* The rest of create: fs.open_file on the new path, whose lock another
\* descriptor may have taken since mknod, and the same match as in open.
FuseCreateMore(fs, f, r, k, held) ==
  FuseOpened([fs EXCEPT !.req = NoRequest], "create",
             FsOpenFile(fs.vault, f, fs.req.path, r, k, held))

\* FuseFileSystem::create with nothing between its two calls.
FuseCreate(fs, f, parent, name, r, k, held) ==
  LET made == FuseCreateFh(fs, parent, name)
  IN IF made.req.op = "create" THEN FuseCreateMore(made, f, r, k, held)
     ELSE Served(made, f)

\* The reply to a read or a write for the offset.
ReadReply(err, fh, offset, data) ==
  [FileReply("read", err, fh) EXCEPT !.offset = offset, !.page = data]
WriteReply(err, fh, offset, n) ==
  [FileReply("write", err, fh) EXCEPT !.offset = offset, !.room = n]
\* An error of the stream is answered EIO; a panic ends the handler.
ReplyErr(err) == IF err = "panic" THEN "panic" ELSE "EIO"

\* A request the handler is in the middle of: between the seek and the
\* reads of try_read_exact or the writes of write_all, each of which takes
\* the lock of the handle's descriptor and lets it go.
Request(op, fh, offset, size, data, rs, f) ==
  [op |-> op, fh |-> fh, offset |-> offset, size |-> size, data |-> data,
   done |-> 0, got |-> <<>>, rs |-> rs, len0 |-> CleartextLen(f), path |-> <<>>]

\* FuseFileSystem::read up to the buffer it makes: ENOENT if the handle is
\* not in open_files, then file.seek(Start(offset)) and the assertion.
FuseReadFh(fs, f, fh, offset, size, held, checks) ==
  IF fh \notin DOMAIN fs.open_files
  THEN [fs EXCEPT !.reply = FileReply("read", "ENOENT", fh)]
  ELSE IF ~Granted("shared", held)
    THEN [fs EXCEPT !.reply = ReadReply("EIO", fh, offset, <<>>)]
  ELSE LET sought == SeekInner(f, fs.open_files[fh].pos, Start(offset), checks)
           at == [fs EXCEPT !.open_files[fh].pos = sought.pos]
       IN IF sought.panic \/ ~OffsetAsserted(sought.ret, offset, checks)
          THEN [at EXCEPT !.reply = ReadReply("panic", fh, offset, <<>>)]
          ELSE IF size = 0
            THEN [at EXCEPT !.reply = ReadReply("none", fh, offset, <<>>)]
          ELSE [at EXCEPT !.req = Request("read", fh, offset, size, <<>>, <<>>, f)]

\* One round of util::try_read_exact on the stream: a read into what is
\* left of the buffer.  The loop ends when the buffer is full, when a read
\* returns 0, and on the first error; then comes the reply.  FuseReadOn is
\* what follows the read that returned got.
FuseReadOn(fs, got) ==
  LET q == fs.req
      at == [fs EXCEPT !.open_files[q.fh].pos = got.pos, !.req = NoRequest]
      buf == q.got \o got.data
  IN IF got.err # "none"
     THEN [at EXCEPT !.reply = ReadReply(ReplyErr(got.err), q.fh, q.offset, <<>>)]
     ELSE IF got.n = 0 \/ Len(buf) = q.size
       THEN [at EXCEPT !.reply = ReadReply("none", q.fh, q.offset, buf)]
     ELSE [at EXCEPT !.req = [q EXCEPT !.got = buf]]
FuseReadMore(fs, f, held, checks) ==
  IF ~Granted("shared", held)
  THEN [fs EXCEPT !.req = NoRequest,
                  !.reply = ReadReply("EIO", fs.req.fh, fs.req.offset, <<>>)]
  ELSE The({FuseReadOn(fs, got) :
              got \in {Read(f, fs.open_files[fs.req.fh].pos,
                            fs.open_files[fs.req.fh].header,
                            fs.req.size - Len(fs.req.got), checks)}})

\* FuseFileSystem::write up to write_all; rs are the random bytes of the
\* nonces, one for each write it takes.
FuseWriteFh(fs, f, fh, offset, data, rs, held, checks) ==
  IF fh \notin DOMAIN fs.open_files
  THEN [fs EXCEPT !.reply = FileReply("write", "ENOENT", fh)]
  ELSE IF ~Granted("shared", held)
    THEN [fs EXCEPT !.reply = WriteReply("EIO", fh, offset, 0)]
  ELSE LET sought == SeekInner(f, fs.open_files[fh].pos, Start(offset), checks)
           at == [fs EXCEPT !.open_files[fh].pos = sought.pos]
       IN IF sought.panic \/ ~OffsetAsserted(sought.ret, offset, checks)
          THEN [at EXCEPT !.reply = WriteReply("panic", fh, offset, 0)]
          ELSE IF data = <<>>
            THEN [at EXCEPT !.reply = WriteReply("none", fh, offset, 0)]
          ELSE [at EXCEPT !.req = Request("write", fh, offset, 0, data, rs, f)]

\* One round of Write::write_all on the stream: a write of what is left of
\* the data.  A write that takes nothing is WriteZero; when all is written
\* the reply is reply.written(data.len()).  FuseWriteOn is what follows the
\* write that returned w.
FuseWriteOn(fs, w) ==
  LET q == fs.req
      at == [fs EXCEPT !.open_files[q.fh].pos = w.pos, !.req = NoRequest]
  IN IF w.err # "none"
     THEN Served([at EXCEPT !.reply = WriteReply(ReplyErr(w.err), q.fh, q.offset, 0)],
                 w.file)
     ELSE IF w.n = 0
       THEN Served([at EXCEPT !.reply = WriteReply("EIO", q.fh, q.offset, 0)], w.file)
     ELSE IF q.done + w.n = Len(q.data)
       THEN Served([at EXCEPT !.reply = WriteReply("none", q.fh, q.offset, Len(q.data))],
                   w.file)
     ELSE Served([at EXCEPT !.req = [q EXCEPT !.done = q.done + w.n,
                                              !.rs = Tail(q.rs)]],
                 w.file)
FuseWriteMore(fs, f, held, checks) ==
  IF ~Granted("exclusive", held)
  THEN Served([fs EXCEPT !.req = NoRequest,
                         !.reply = WriteReply("EIO", fs.req.fh, fs.req.offset, 0)],
              f)
  ELSE The({FuseWriteOn(fs, w) :
              w \in {Write(f, fs.open_files[fs.req.fh].pos,
                           fs.open_files[fs.req.fh].header,
                           Drop(fs.req.data, fs.req.done), Head(fs.req.rs),
                           checks)}})

\* FuseFileSystem::flush: the stream's flush, which takes the exclusive
\* lock for it (try_write()?.flush()) and writes nothing of its own.
FuseFlush(fs, fh, held) ==
  IF fh \notin DOMAIN fs.open_files
  THEN [fs EXCEPT !.reply = FileReply("flush", "ENOENT", fh)]
  ELSE IF ~Granted("exclusive", held)
    THEN [fs EXCEPT !.reply = FileReply("flush", "EIO", fh)]
  ELSE [fs EXCEPT !.reply = FileReply("flush", "none", fh)]
\* FuseFileSystem::fsync: sync_data or sync_all of the stream.
FuseFsync(fs, fh) ==
  IF fh \notin DOMAIN fs.open_files
  THEN [fs EXCEPT !.reply = FileReply("fsync", "ENOENT", fh)]
  ELSE [fs EXCEPT !.reply = FileReply("fsync", "none", fh)]

FuseReleaseKept(fs, fh) == [fs EXCEPT !.reply = FileReply("release", "none", fh)]
\* FuseFileSystem::release: open_files.remove(&fh) and reply.ok().
FuseRelease(fs, fh) ==
  [fs EXCEPT !.open_files = [h \in DOMAIN fs.open_files \ {fh} |-> fs.open_files[h]],
             !.reply = FileReply("release", "none", fh)]

\* ---------------------------------------------------------------- state
VARIABLES
  file,      \* the bytes of the ciphertext file
  opened,    \* opened[s]: stream s exists (EncryptedFile::open returned Ok)
  fpos,      \* fpos[s]: the cursor of stream s's file descriptor
  header,    \* header[s]: the FileHeader stream s caches
  lock,      \* lock[s]: the advisory lock stream s's descriptor holds
  pc,        \* pc[s]: the operation stream s is inside, or "idle"
  perm,      \* the permission bits of the ciphertext file
  checks,    \* the build traps integer overflow (debug) or wraps (release)
  last,      \* the operation that returned last: its arguments and result
  rt,        \* the write-all / rewind / read-to-end driver (SpecRoundTrip)
  call,      \* the last call of the v1 Cryptor: its arguments and outcome
  fuse,      \* the FuseFileSystem over the directories: vault, inodes, handles
  exists     \* the path of the ciphertext file names a file

vars == <<file, opened, fpos, header, lock, pc, perm, checks, last, rt, call, fuse, exists>>

\* The inputs the operations are driven with.
\* Buffers of every length up to one byte more than a chunk, their bytes
\* alternating from either value so that neighbours differ.
Pattern(v, n) == [i \in 1 .. n |-> (v + i) % ByteMod]
Bufs == {Pattern(v, n) : v \in Byte, n \in 0 .. (CHUNK_LEN + 1)}
BufLens == 0 .. (CHUNK_LEN + 1)
\* A few of each, for the specifications whose state is large otherwise.
FewBufs == {Pattern(0, 1), Pattern(1, CHUNK_LEN), Pattern(0, CHUNK_LEN + 1)}
FewBufLens == {1, CHUNK_LEN}
FewSeeks == {Start(0), Start(1), End(0), Current(1), Current(0 - 1)}
OneRand == {0}
\* Seeks around the file's extent and up to the largest offset a FUSE
\* request carries (a non-negative i64), and, in SeekFromsWide, those at the
\* ends of the integer types as well.
SeekFroms ==
  {Start(n) : n \in (0 .. (MaxLen + 1)) \cup {I64_MAX}}
    \cup {End(n) : n \in {0 - MaxLen - 1, 0 - 2, 0 - 1, 0, 1, I64_MAX}}
    \cup {Current(n) : n \in {0 - MaxLen - 1, 0 - 2, 0 - 1, 0, 1, 2, MaxLen + 1, I64_MAX}}
\* The least cleartext offset whose ciphertext position does not fit a u64.
WrapPoint ==
  CHOOSE n \in 0 .. U64_MAX :
    DesiredPos(n) > U64_MAX /\ \A m \in 0 .. (n - 1) : DesiredPos(m) <= U64_MAX
SeekFromsWide ==
  SeekFroms
    \cup {Start(n) : n \in {WrapPoint, U64_MAX}}
    \cup {End(I64_MIN), Current(I64_MIN)}
Perms == {0, 1}

NoArgs == [buf |-> <<>>, buf_len |-> 0, sf |-> Start(0), perm |-> 0]
Returned(s, op, args, ret, data, err) ==
  [stream |-> s, op |-> op, args |-> args, ret |-> ret, data |-> data, err |-> err]
NoCall == Returned(0, "none", NoArgs, 0, <<>>, "none")
\* No call of the v1 Cryptor was made yet.
NoCryptorCall == [op |-> "none"]
NoRoundTrip == [phase |-> "off", payload |-> <<>>, todo |-> <<>>, got |-> <<>>]

Init ==
  /\ file = <<>>
  /\ opened = [s \in Streams |-> FALSE]
  /\ fpos = [s \in Streams |-> 0]
  /\ header = [s \in Streams |-> NoHeader]
  /\ lock = [s \in Streams |-> "none"]
  /\ pc = [s \in Streams |-> "idle"]
  /\ perm = 0
  /\ checks \in BOOLEAN
  /\ last = NoCall
  /\ rt = NoRoundTrip
  /\ call = NoCryptorCall
  /\ fuse = NewFuse
  /\ exists = TRUE

\* ------------------------------------------------------ the advisory lock
\* fd_lock::RwLock::try_write / try_read on stream s's descriptor: flock
\* LOCK_EX | LOCK_NB and LOCK_SH | LOCK_NB against the other descriptors.
CanLockExclusive(s) == \A t \in Streams \ {s} : lock[t] = "none"
CanLockShared(s) == \A t \in Streams \ {s} : lock[t] # "exclusive"

\* LockKind with write under the shared lock.
LockKindWriteShared(op) ==
  IF op \in {"open", "flush", "set_permissions"} THEN "exclusive" ELSE "shared"

\* LockKind with seek under the exclusive lock.
LockKindSeekExclusive(op) ==
  IF op \in {"open", "write", "flush", "set_permissions", "seek"}
  THEN "exclusive" ELSE "shared"

\* The lock each operation takes.
LockKind(op) ==
  IF op \in {"open", "write", "flush", "set_permissions"} THEN "exclusive" ELSE "shared"

CanLock(s, op) ==
  IF LockKind(op) = "exclusive" THEN CanLockExclusive(s) ELSE CanLockShared(s)

\* ------------------------------------------- the body of each operation
\* Each is the operation on stream s from the lock's acquisition to its
\* release: what it does to the file, the cursor and the cached header, and
\* what it returns.
OpenBody(s, r, k) ==
  LET res == Open(exists, file, r, k)
  IN /\ file' = res.file
     /\ opened' = [opened EXCEPT ![s] = (res.err = "none")]
     /\ fpos' = [fpos EXCEPT ![s] = IF res.err = "none" THEN res.pos ELSE 0]
     /\ header' = [header EXCEPT ![s] = res.header]
     /\ last' = Returned(s, "open", NoArgs, 0, <<>>, res.err)
     /\ UNCHANGED perm

CreateNewBody(s, r, k) ==
  LET res == CreateNew(exists, file, r, k)
  IN /\ exists' = res.present
     /\ file' = res.file
     /\ opened' = [opened EXCEPT ![s] = (res.err = "none")]
     /\ fpos' = [fpos EXCEPT ![s] = IF res.err = "none" THEN res.pos ELSE 0]
     /\ header' = [header EXCEPT ![s] = res.header]
     /\ last' = Returned(s, "create_new", NoArgs, 0, <<>>, res.err)
     /\ UNCHANGED perm

ReadBody(s, buf_len) ==
  LET res == Read(file, fpos[s], header[s], buf_len, checks)
  IN /\ fpos' = [fpos EXCEPT ![s] = res.pos]
     /\ last' = Returned(s, "read", [NoArgs EXCEPT !.buf_len = buf_len],
                         res.n, res.data, res.err)
     /\ UNCHANGED <<file, opened, header, perm>>

WriteBody(s, buf, r) ==
  LET res == Write(file, fpos[s], header[s], buf, r, checks)
  IN /\ CleartextLen(res.file) <= MaxLen
     /\ file' = res.file
     /\ fpos' = [fpos EXCEPT ![s] = res.pos]
     /\ last' = Returned(s, "write", [NoArgs EXCEPT !.buf = buf], res.n, <<>>, res.err)
     /\ UNCHANGED <<opened, header, perm>>

SeekBody(s, sf) ==
  LET res == SeekInner(file, fpos[s], sf, checks)
  IN /\ fpos' = [fpos EXCEPT ![s] = res.pos]
     /\ last' = Returned(s, "seek", [NoArgs EXCEPT !.sf = sf], res.ret, <<>>,
                         IF res.panic THEN "panic" ELSE "none")
     /\ UNCHANGED <<file, opened, header, perm>>

FlushBody(s) ==
  /\ last' = Returned(s, "flush", NoArgs, 0, <<>>, "none")
  /\ UNCHANGED <<file, opened, fpos, header, perm>>

LenBody(s) ==
  /\ last' = Returned(s, "len", NoArgs, CleartextLen(file), <<>>, "none")
  /\ UNCHANGED <<file, opened, fpos, header, perm>>

MetadataBody(s) ==
  /\ last' = Returned(s, "metadata", NoArgs, perm, <<>>, "none")
  /\ UNCHANGED <<file, opened, fpos, header, perm>>

SetPermissionsBody(s, p) ==
  /\ perm' = p
  /\ last' = Returned(s, "set_permissions", [NoArgs EXCEPT !.perm = p], 0, <<>>, "none")
  /\ UNCHANGED <<file, opened, fpos, header>>

\* Dropping the stream closes its descriptor.
CloseBody(s) ==
  /\ opened' = [opened EXCEPT ![s] = FALSE]
  /\ fpos' = [fpos EXCEPT ![s] = 0]
  /\ header' = [header EXCEPT ![s] = NoHeader]
  /\ last' = Returned(s, "close", NoArgs, 0, <<>>, "none")
  /\ UNCHANGED <<file, perm>>

\* ------------------------------------------- one stream, one thread (Spec)
\* With no other descriptor on the file every lock is granted, so an
\* operation runs from acquisition to release in one step.  The thread
\* makes its next call once it has taken the result of the last (Resume).
Alone == <<lock, pc, checks, rt, call, fuse, exists>>
Ready(op) == last = NoCall /\ CanLock(1, op)

DoOpen == /\ ~opened[1] /\ Ready("open")
          /\ \E r \in RandVals, k \in KeyVals : OpenBody(1, r, k)
          /\ UNCHANGED Alone
DoCreateNew == /\ ~opened[1] /\ Ready("open")
               /\ \E r \in RandVals, k \in KeyVals : CreateNewBody(1, r, k)
               /\ UNCHANGED <<lock, pc, checks, rt, call, fuse>>
DoRead(among) == /\ opened[1] /\ Ready("read")
                 /\ \E n \in among : ReadBody(1, n)
                 /\ UNCHANGED Alone
DoWrite(among, nonces) ==
  /\ opened[1] /\ Ready("write")
  /\ \E buf \in among, r \in nonces : WriteBody(1, buf, r)
  /\ UNCHANGED Alone
DoSeek(among) == /\ opened[1] /\ Ready("seek")
                 /\ \E sf \in among : SeekBody(1, sf)
                 /\ UNCHANGED Alone
DoFlush == /\ opened[1] /\ Ready("flush") /\ FlushBody(1) /\ UNCHANGED Alone
DoLen == /\ opened[1] /\ Ready("len") /\ LenBody(1) /\ UNCHANGED Alone
DoClose == /\ opened[1] /\ last = NoCall /\ CloseBody(1) /\ UNCHANGED Alone
Resume == /\ last # NoCall /\ last' = NoCall
          /\ UNCHANGED <<file, opened, fpos, header, perm>> /\ UNCHANGED Alone

Next ==
  \/ DoOpen \/ DoRead(BufLens) \/ DoWrite(Bufs, RandVals) \/ DoSeek(SeekFroms)
  \/ DoFlush \/ DoLen \/ DoClose \/ Resume

\* No seek of Next overflows (its offsets are at most I64_MAX), so the two
\* builds behave alike under it; Spec follows the one with overflow checks,
\* SpecWide both.
Checked == Init /\ checks

Spec == Checked /\ [][Next]_vars

\* The same stream driven with every seek the Seek trait accepts.
NextWide ==
  \/ DoOpen \/ DoRead(FewBufLens) \/ DoWrite(FewBufs, OneRand) \/ DoSeek(SeekFromsWide)
  \/ DoFlush \/ DoLen \/ DoClose \/ Resume

SpecWide == Init /\ [][NextWide]_vars

\* ------------------------------- write all, rewind, read to end (SpecRoundTrip)
\* One thread opens a stream on the empty source and drives it the way the
\* round-trip test does: write until every byte of the payload is accepted
\* (handing over any non-empty prefix of what is left, as write_all and a
\* buffering caller do), flush, seek(Start(0)), read until read returns 0,
\* then len().
Payloads == {Pattern(v, n) : v \in Byte, n \in 0 .. MaxLen}
Driven == <<lock, pc, checks, call, fuse, exists>>

RtOpen ==
  /\ rt.phase = "off" /\ ~opened[1] /\ file = <<>> /\ CanLock(1, "open")
  /\ \E r \in RandVals, k \in KeyVals : OpenBody(1, r, k)
  /\ \E x \in Payloads :
       rt' = [phase |-> "write", payload |-> x, todo |-> x, got |-> <<>>]
  /\ UNCHANGED Driven

RtWrite ==
  /\ rt.phase = "write" /\ rt.todo # <<>> /\ CanLock(1, "write")
  /\ \E n \in 1 .. Len(rt.todo), r \in RandVals : WriteBody(1, Take(rt.todo, n), r)
  /\ rt' = [rt EXCEPT !.todo = IF last'.err = "none" THEN Drop(rt.todo, last'.ret)
                                ELSE rt.todo,
                      !.phase = IF last'.err = "none" THEN "write" ELSE "failed"]
  /\ UNCHANGED Driven

RtFlush ==
  /\ rt.phase = "write" /\ rt.todo = <<>> /\ CanLock(1, "flush")
  /\ FlushBody(1)
  /\ rt' = [rt EXCEPT !.phase = "flushed"]
  /\ UNCHANGED Driven

RtRewind ==
  /\ rt.phase = "flushed" /\ CanLock(1, "seek")
  /\ SeekBody(1, Start(0))
  /\ rt' = [rt EXCEPT !.phase = IF last'.err = "none" THEN "read" ELSE "failed"]
  /\ UNCHANGED Driven

RtRead ==
  /\ rt.phase = "read" /\ CanLock(1, "read")
  /\ \E n \in BufLens \ {0} : ReadBody(1, n)
  /\ rt' = [rt EXCEPT !.got = rt.got \o last'.data,
                      !.phase = IF last'.err # "none" THEN "failed"
                                ELSE IF last'.ret = 0 THEN "len" ELSE "read"]
  /\ UNCHANGED Driven

RtLen ==
  /\ rt.phase = "len" /\ CanLock(1, "len")
  /\ LenBody(1)
  /\ rt' = [rt EXCEPT !.phase = "done"]
  /\ UNCHANGED Driven

NextRoundTrip == RtOpen \/ RtWrite \/ RtFlush \/ RtRewind \/ RtRead \/ RtLen

SpecRoundTrip == Init /\ [][NextRoundTrip]_vars

\* ------------------------------ two streams, two threads (SpecLock)
\* Each stream has its own descriptor on the one ciphertext file and its own
\* thread.  An operation is two steps: the try_write / try_read at its head,
\* which takes the lock or fails at once, and the rest of its body, at the
\* end of which the guard is dropped.  Steps of the two threads interleave.
Ops == {"open", "read", "write", "seek", "flush", "len", "metadata", "set_permissions"}
Callable(s, op) == IF op = "open" THEN ~opened[s] ELSE opened[s]

\* open first opens the path (File::options().open(path)?), which fails on
\* a path that names no file before any lock is tried.
Reaches(op) == op = "open" => exists
OpenMissing(s) ==
  /\ last = NoCall /\ pc[s] = "idle" /\ ~opened[s] /\ ~exists
  /\ last' = Returned(s, "open", NoArgs, 0, <<>>, "NotFound")
  /\ UNCHANGED <<file, opened, fpos, header, lock, pc, perm, checks, rt, call, fuse, exists>>

\* The lock is free: the guard is taken and the body entered.
Acquire(s, op) ==
  /\ last = NoCall /\ pc[s] = "idle" /\ Callable(s, op) /\ Reaches(op)
  /\ CanLock(s, op)
  /\ lock' = [lock EXCEPT ![s] = LockKind(op)]
  /\ pc' = [pc EXCEPT ![s] = op]
  /\ UNCHANGED <<file, opened, fpos, header, perm, checks, last, rt, call, fuse, exists>>

\* The lock is taken: `?` returns the error of the failed try.
Busy(s, op) ==
  /\ last = NoCall /\ pc[s] = "idle" /\ Callable(s, op) /\ Reaches(op)
  /\ ~CanLock(s, op)
  /\ last' = Returned(s, op, NoArgs, 0, <<>>, "Busy")
  /\ UNCHANGED <<file, opened, fpos, header, lock, pc, perm, checks, rt, call, fuse, exists>>

ReleaseOnOk(s) ==
  /\ lock' = [lock EXCEPT ![s] = IF last'.err = "none" THEN "none" ELSE @]
  /\ pc' = [pc EXCEPT ![s] = "idle"]
  /\ UNCHANGED <<checks, rt, call, fuse, exists>>
\* The body runs and the guard is dropped, whichever way the body is left.
Release(s) ==
  /\ lock' = [lock EXCEPT ![s] = "none"]
  /\ pc' = [pc EXCEPT ![s] = "idle"]
  /\ UNCHANGED <<checks, rt, call, fuse, exists>>

Inside(s, op) == last = NoCall /\ pc[s] = op

FinishOpen(s) ==
  /\ Inside(s, "open") /\ \E r \in OneRand, k \in KeyVals : OpenBody(s, r, k)
  /\ Release(s)
FinishRead(s) ==
  /\ Inside(s, "read") /\ \E n \in FewBufLens : ReadBody(s, n) /\ Release(s)
FinishWrite(s) ==
  /\ Inside(s, "write") /\ \E buf \in FewBufs, r \in OneRand : WriteBody(s, buf, r)
  /\ Release(s)
FinishSeek(s) ==
  /\ Inside(s, "seek") /\ \E sf \in FewSeeks : SeekBody(s, sf) /\ Release(s)
FinishFlush(s) == Inside(s, "flush") /\ FlushBody(s) /\ Release(s)
FinishLen(s) == Inside(s, "len") /\ LenBody(s) /\ Release(s)
FinishMetadata(s) == Inside(s, "metadata") /\ MetadataBody(s) /\ Release(s)
FinishSetPermissions(s) ==
  /\ Inside(s, "set_permissions") /\ \E p \in Perms : SetPermissionsBody(s, p)
  /\ Release(s)
Close(s) ==
  /\ last = NoCall /\ pc[s] = "idle" /\ opened[s] /\ CloseBody(s)
  /\ UNCHANGED <<lock, pc, checks, rt, call, fuse, exists>>

NextLock ==
  \/ \E s \in Streams, op \in Ops : Acquire(s, op)
  \/ \E s \in Streams, op \in Ops : Busy(s, op)
  \/ \E s \in Streams : FinishOpen(s)
  \/ \E s \in Streams : FinishRead(s)
  \/ \E s \in Streams : FinishWrite(s)
  \/ \E s \in Streams : FinishSeek(s)
  \/ \E s \in Streams : FinishFlush(s)
  \/ \E s \in Streams : FinishLen(s)
  \/ \E s \in Streams : FinishMetadata(s)
  \/ \E s \in Streams : FinishSetPermissions(s)
  \/ \E s \in Streams : Close(s)
  \/ Resume

SpecLock == Checked /\ [][NextLock]_vars

\* ------------------------------ opening whatever is stored (SpecOpen)
\* The file a stream is opened on is whatever the path holds: no file, an
\* empty file, a file an earlier stream wrote, such a file cut short or with a byte of its
\* header damaged, or bytes that never were a header.
RECURSIVE EncryptAll(_, _, _)
EncryptAll(x, hdr, i) ==
  IF x = <<>> THEN <<>>
  ELSE EncryptChunk(Take(x, max_chunk_len), hdr, i, 0).val
         \o EncryptAll(Drop(x, max_chunk_len), hdr, i + 1)
Stored(x, r, k) ==
  EncryptHeader(NewHeader(r, k)) \o EncryptAll(x, NewHeader(r, k), 0)
Damaged(f) == [f EXCEPT ![1] = (f[1] + 1) % ByteMod]

StoredFiles == {Stored(x, r, k) : x \in Payloads, r \in RandVals, k \in KeyVals}
Sources ==
  {<<>>}
    \cup StoredFiles
    \cup {Take(f, n) : f \in StoredFiles, n \in 1 .. (encrypted_header_len - 1)}
    \cup {Damaged(f) : f \in StoredFiles}
    \cup {Pattern(v, n) : v \in Byte, n \in 1 .. encrypted_header_len}

InitOpen ==
  /\ file \in Sources
  /\ opened = [s \in Streams |-> FALSE]
  /\ fpos = [s \in Streams |-> 0]
  /\ header = [s \in Streams |-> NoHeader]
  /\ lock = [s \in Streams |-> "none"]
  /\ pc = [s \in Streams |-> "idle"]
  /\ perm = 0
  /\ checks \in BOOLEAN
  /\ last = NoCall
  /\ rt = NoRoundTrip
  /\ call = NoCryptorCall
  /\ fuse = NewFuse
  /\ exists \in BOOLEAN
  /\ exists \/ file = <<>>

\* What open made of the source shows in len(), seek(Current(0)) and read.
\* The path may also name nothing yet: open then fails and create_new makes
\* the file.
NextOpen ==
  \/ DoOpen \/ DoCreateNew \/ DoRead(FewBufLens) \/ DoSeek({Current(0)})
  \/ DoLen \/ DoClose \/ Resume

SpecOpen == InitOpen /\ [][NextOpen]_vars


\* ------------------------------------------------ SpecV1: the v1 Cryptor
\* The functions of crypto/v1.rs called as its tests call them, one
\* exchange at a time: something is encrypted, then what came out is handed
\* back for decryption, as it is or with a bit flipped or a byte cut off or
\* added, under the same chunk number or directory or another.  No stream is
\* open meanwhile.
MasterKeys == {[enc_key |-> 1, mac_key |-> 2], [enc_key |-> 2, mac_key |-> 1]}
Headers == {NewHeader(r, k) : r \in RandVals, k \in RandVals}
Chunks == UNION {[1 .. n -> Byte] : n \in 0 .. (CHUNK_LEN + 1)}
ChunkNumbers == {0, 1, 2}
\* Names of one-byte characters, and two of characters that take two and
\* three bytes of UTF-8 (U+00E9, U+20AC).
WideNames == {<<195, 169>>, <<226, 130, 172>>}
Names == UNION {[1 .. n -> Byte] : n \in 0 .. MaxNameLen} \cup WideNames
DirIds == {<<>>, <<0>>, <<1>>}

\* x with its lowest bit flipped.
FlipBit(x) == IF x % 2 = 0 THEN x + 1 ELSE x - 1
Flips(s) == {[s EXCEPT ![i] = FlipBit(s[i])] : i \in 1 .. Len(s)}
Resizes(s) == {Take(s, n) : n \in 0 .. (Len(s) - 1)} \cup {Append(s, 0)}
\* An encrypted name with one symbol exchanged for another of the alphabet
\* or for one outside it, or with its last symbol cut off.
Respellings(s) ==
  {[s EXCEPT ![i] = c] : i \in 1 .. Len(s), c \in {"A", "B", "!"}} \ {s}
Shortenings(s) == IF s = <<>> THEN {} ELSE {Take(s, Len(s) - 1)}
\* An encrypted name whose SIV ciphertext has a bit flipped in any octet,
\* of the synthetic IV or behind it, or is cut short or a zero octet longer.
Retouchings(s) ==
  LET octets == Base64UrlDecode(s).val
  IN {Base64UrlEncode(t) : t \in Flips(octets) \cup Resizes(octets)}

CryptorCall(op, key, hdr, chunk, number, asked_number, name, dir, asked_dir, sent, input, out) ==
  [op |-> op, key |-> key, header |-> hdr, chunk |-> chunk,
   number |-> number, asked_number |-> asked_number, name |-> name,
   dir |-> dir, asked_dir |-> asked_dir, sent |-> sent, input |-> input,
   out |-> out]

Quiet == <<file, opened, fpos, header, lock, pc, perm, checks, last, rt, fuse, exists>>

V1CallEncryptHeader ==
  /\ call.op = "none"
  /\ \E key \in MasterKeys, h \in Headers :
       LET out == V1EncryptHeader(key, h)
       IN call' = CryptorCall("encrypt_header", key, h, <<>>, 0, 0, <<>>,
                              <<>>, <<>>, out, <<>>, Returns(out))
  /\ UNCHANGED Quiet

V1CallDecryptHeader ==
  /\ call.op = "encrypt_header"
  /\ \E input \in {call.sent} \cup Flips(call.sent) \cup Resizes(call.sent) :
       call' = [call EXCEPT !.op = "decrypt_header", !.input = input,
                            !.out = V1DecryptHeader(call.key, input)]
  /\ UNCHANGED Quiet

V1CallEncryptChunk ==
  /\ call.op = "none"
  /\ \E key \in MasterKeys, h \in Headers, c \in Chunks, n \in ChunkNumbers :
       LET out == V1EncryptChunk(key, c, h, n, checks)
       IN call' = CryptorCall("encrypt_chunk", key, h, c, n, n, <<>>, <<>>,
                              <<>>, out.val, <<>>, out)
  /\ UNCHANGED Quiet

V1CallDecryptChunk ==
  /\ call.op = "encrypt_chunk" /\ call.out.kind = "returns"
  /\ \E input \in {call.sent} \cup Flips(call.sent) \cup Resizes(call.sent),
        n \in ChunkNumbers :
       call' = [call EXCEPT !.op = "decrypt_chunk", !.input = input,
                            !.asked_number = n,
                            !.out = V1DecryptChunk(call.key, input,
                                                   call.header, n)]
  /\ UNCHANGED Quiet

V1CallEncryptName ==
  /\ call.op = "none"
  /\ \E key \in MasterKeys, name \in Names, d \in DirIds :
       LET out == V1EncryptName(key, name, d)
       IN call' = CryptorCall("encrypt_name", key, NoHeader, <<>>, 0, 0, name,
                              d, d, out, <<>>, Returns(out))
  /\ UNCHANGED Quiet

V1CallDecryptName ==
  /\ call.op = "encrypt_name"
  /\ \E input \in {call.sent} \cup Respellings(call.sent)
                    \cup Shortenings(call.sent) \cup Retouchings(call.sent),
        d \in DirIds :
       call' = [call EXCEPT !.op = "decrypt_name", !.input = input,
                            !.asked_dir = d,
                            !.out = V1DecryptName(call.key, input, d)]
  /\ UNCHANGED Quiet

\* The name decrypt_name gave back is encrypted again for the directory it
\* was decrypted for.
V1CallEncryptNameAgain ==
  /\ call.op = "decrypt_name" /\ call.out.kind = "returns"
  /\ call' = [call EXCEPT !.op = "encrypt_name_again",
                          !.out = Returns(V1EncryptName(call.key, call.out.val,
                                                        call.asked_dir))]
  /\ UNCHANGED Quiet

\* The caller is done with what the last call gave it.
V1Return ==
  /\ call.op # "none"
  /\ call' = NoCryptorCall
  /\ UNCHANGED Quiet

NextV1 ==
  \/ V1CallEncryptHeader
  \/ V1CallDecryptHeader
  \/ V1CallEncryptChunk
  \/ V1CallDecryptChunk
  \/ V1CallEncryptName
  \/ V1CallDecryptName
  \/ V1CallEncryptNameAgain
  \/ V1Return

SpecV1 == Init /\ [][NextV1]_vars


\* ------------------------------ writing into a damaged file (SpecTorn)
\* The stream is opened on a file an earlier stream wrote, as it was left or
\* with one bit of one stored chunk flipped or its last bytes lost, and is
\* written to: the chunk a write has to decrypt first may not authenticate.
TornPayloads ==
  {Pattern(0, 2), Pattern(1, CHUNK_LEN), Pattern(0, CHUNK_LEN + 2)}
ChunkFlips(f) ==
  {[f EXCEPT ![i] = FlipBit(f[i])] : i \in (encrypted_header_len + 1) .. Len(f)}
TornSources ==
  LET kept == {Stored(x, r, k) : x \in TornPayloads, r \in OneRand, k \in KeyVals}
  IN kept \cup UNION {ChunkFlips(f) : f \in kept}
          \cup {Take(f, Len(f) - 1) : f \in kept}

InitTorn ==
  /\ file \in TornSources
  /\ opened = [s \in Streams |-> FALSE]
  /\ fpos = [s \in Streams |-> 0]
  /\ header = [s \in Streams |-> NoHeader]
  /\ lock = [s \in Streams |-> "none"]
  /\ pc = [s \in Streams |-> "idle"]
  /\ perm = 0
  /\ checks \in BOOLEAN
  /\ last = NoCall
  /\ rt = NoRoundTrip
  /\ call = NoCryptorCall
  /\ fuse = NewFuse
  /\ exists = TRUE

NextTorn ==
  \/ DoOpen \/ DoRead(FewBufLens) \/ DoWrite(FewBufs, RandVals)
  \/ DoSeek(FewSeeks) \/ Resume

SpecTorn == InitTorn /\ [][NextTorn]_vars


\* ------------------------------ the FUSE directory handlers (SpecFuseDir)
\* The kernel's requests: a path names the parent inode and the name; the
\* reply buffer of a readdir takes one, two or three entries.
Handles == {0}
Rooms == {1, 2}
MknodPaths == {<<2>>, <<3>>, <<1, 1>>}
MkdirPaths == {<<1>>, <<2>>}
SymlinkPaths == {<<3>>}
UnlinkPaths == {<<2>>, <<3>>, <<1, 1>>}
RmdirPaths == {<<1>>, <<2>>}
Renames == {<<<<2>>, <<3>>>>, <<<<3>>, <<2>>>>}
Front(path) == SubSeq(path, 1, Len(path) - 1)
Last(path) == path[Len(path)]
Still == <<file, opened, fpos, header, lock, pc, perm, checks, last, rt, call, exists>>
AtRest == fuse.reply.op = "none" /\ fuse.req.op = "none"

DoLookup ==
  /\ AtRest
  /\ \E p \in VaultPaths : fuse' = FuseLookup(fuse, InodeOf(Front(p)), Last(p))
  /\ UNCHANGED Still
DoMknod ==
  /\ AtRest
  /\ \E p \in MknodPaths : fuse' = FuseMknod(fuse, InodeOf(Front(p)), Last(p))
  /\ UNCHANGED Still
DoMkdir ==
  /\ AtRest
  /\ \E p \in MkdirPaths : fuse' = FuseMkdir(fuse, InodeOf(Front(p)), Last(p))
  /\ UNCHANGED Still
DoSymlink ==
  /\ AtRest
  /\ \E p \in SymlinkPaths : fuse' = FuseSymlink(fuse, InodeOf(Front(p)), Last(p))
  /\ UNCHANGED Still
DoUnlink ==
  /\ AtRest
  /\ \E p \in UnlinkPaths : fuse' = FuseUnlink(fuse, InodeOf(Front(p)), Last(p))
  /\ UNCHANGED Still
DoRmdir ==
  /\ AtRest
  /\ \E p \in RmdirPaths : fuse' = FuseRmdir(fuse, InodeOf(Front(p)), Last(p))
  /\ UNCHANGED Still
DoRename ==
  /\ AtRest
  /\ \E r \in Renames :
       fuse' = FuseRename(fuse, InodeOf(Front(r[1])), Last(r[1]),
                          InodeOf(Front(r[2])), Last(r[2]))
  /\ UNCHANGED Still
DoOpendir ==
  /\ AtRest /\ fuse.next_handle \in Handles
  /\ \E p \in {<<>>, <<1>>} : fuse' = FuseOpendir(fuse, InodeOf(p))
  /\ UNCHANGED Still

\* The kernel pages through a handle: the first readdir on it asks for
\* offset 0, each later one for the offset of the last entry it received,
\* until a page comes back empty.
Paging(pager, fh) == pager.on /\ pager.fh = fh /\ ~pager.done
AskedOffset(pager, fh) == IF Paging(pager, fh) THEN pager.next ELSE 0
Paged(pager, fh, reply) ==
  IF reply.err # "none" THEN pager
  ELSE [fh |-> fh, on |-> TRUE,
        next |-> IF reply.page = <<>> THEN AskedOffset(pager, fh)
                 ELSE reply.page[Len(reply.page)].offset,
        got |-> (IF Paging(pager, fh) THEN pager.got ELSE <<>>) \o reply.page,
        done |-> reply.page = <<>>]
DoReaddir ==
  /\ AtRest
  /\ \E fh \in Handles, room \in Rooms :
       fuse' = The({[after EXCEPT !.pager = Paged(fuse.pager, fh, after.reply)] :
                      after \in {FuseReaddir(fuse, fh, AskedOffset(fuse.pager, fh), room)}})
  /\ UNCHANGED Still
DoReleasedir ==
  /\ AtRest
  /\ \E fh \in Handles :
       fuse' = [FuseReleasedir(fuse, fh) EXCEPT
                  !.pager = IF fuse.pager.fh = fh /\ fh \in DOMAIN fuse.open_dirs
                            THEN NoPager ELSE fuse.pager]
  /\ UNCHANGED Still
FuseReplied ==
  /\ fuse.reply.op # "none" /\ fuse' = [fuse EXCEPT !.reply = NoReply]
  /\ UNCHANGED Still

NextFuseDir ==
  \/ DoLookup \/ DoMknod \/ DoMkdir \/ DoSymlink \/ DoUnlink \/ DoRmdir \/ DoRename
  \/ DoOpendir \/ DoReaddir \/ DoReleasedir \/ FuseReplied

\* A FuseFileSystem over an empty vault: the ciphertext file of the path
\* the kernel will create is not there yet.
InitFuseFile ==
  /\ file = <<>>
  /\ opened = [s \in Streams |-> FALSE]
  /\ fpos = [s \in Streams |-> 0]
  /\ header = [s \in Streams |-> NoHeader]
  /\ lock = [s \in Streams |-> "none"]
  /\ pc = [s \in Streams |-> "idle"]
  /\ perm = 0
  /\ checks \in BOOLEAN
  /\ last = NoCall
  /\ rt = NoRoundTrip
  /\ call = NoCryptorCall
  /\ fuse = NewFuse
  /\ exists = FALSE
\* The handle tables take no branch on the build.
InitFuseEmpty == InitFuseFile /\ checks

\* The vault a FuseFileSystem is made over is empty, or holds a file and a
\* directory with a file in it, none of them with an inode yet.
FilledVault ==
  [EmptyVault EXCEPT ![<<1>>] = "Directory", ![<<1, 1>>] = "File", ![<<2>>] = "File"]
StartVaults == {EmptyVault, FilledVault}
InitFuseDir ==
  /\ file = <<>>
  /\ opened = [s \in Streams |-> FALSE]
  /\ fpos = [s \in Streams |-> 0]
  /\ header = [s \in Streams |-> NoHeader]
  /\ lock = [s \in Streams |-> "none"]
  /\ pc = [s \in Streams |-> "idle"]
  /\ perm = 0
  /\ checks = TRUE
  /\ last = NoCall
  /\ rt = NoRoundTrip
  /\ call = NoCryptorCall
  /\ fuse \in {FuseNew(v) : v \in StartVaults}
  /\ exists = TRUE

SpecFuseDir == InitFuseDir /\ [][NextFuseDir]_vars

\* ------------------------------ the FUSE handle tables (SpecFuseHandles)
\* The kernel creates and opens the file 2 of the root, opens the root
\* directory, and sends requests with every handle, among them handles
\* that were released and one that was never replied.
HandleCap == {0, 1, 2}
AskedHandles == {0, 1, 2, 3}
TheFile == <<2>>
Apart == <<opened, fpos, header, lock, pc, perm, checks, last, rt, call, exists>>

\* The handle an open, create or opendir replied with is noted as issued,
\* the file handle a release closed as released.
Issued(before, after) ==
  [after EXCEPT
     !.issued =
       IF after.reply.op \in {"open", "create", "opendir"} /\ after.reply.err = "none"
       THEN before.issued \cup {after.reply.fh} ELSE before.issued,
     !.released =
       IF after.reply.op = "release" /\ after.reply.fh \in DOMAIN before.open_files
       THEN before.released \cup {after.reply.fh} ELSE before.released]

\* The strongest lock on the descriptors of the streams outside the
\* FuseFileSystem; the descriptors of its handles hold none between the
\* steps of a handler.
Held ==
  IF \E t \in Streams : lock[t] = "exclusive" THEN "exclusive"
  ELSE IF \E t \in Streams : lock[t] = "shared" THEN "shared"
  ELSE "none"

\* The kernel sends a request when the reply to the last one is out and the
\* handler is done; the streams outside are between two calls.
Asked == AtRest /\ last = NoCall

Beside == <<opened, fpos, header, lock, pc, perm, checks, last, rt, call>>

\* A create request: the handler runs up to fs.mknod, which makes the
\* ciphertext file, then opens it.
DoFhCreate(cap, parents) ==
  /\ Asked /\ fuse.next_handle \in cap
  /\ \E parent \in parents : fuse' = FuseCreateFh(fuse, parent, Last(TheFile))
  /\ exists' = (exists \/ fuse'.req.op = "create")
  /\ UNCHANGED file /\ UNCHANGED Beside
FhCreateMore(rands) ==
  /\ fuse.req.op = "create" /\ last = NoCall
  /\ \E r \in rands, k \in KeyVals :
       LET res == FuseCreateMore(fuse, file, r, k, Held)
       IN fuse' = Issued(fuse, res.fs) /\ file' = res.file
  /\ UNCHANGED Apart
DoFhOpen(cap) ==
  /\ Asked /\ fuse.next_handle \in cap
  /\ \E ino \in {FUSE_ROOT_ID, InodeOf(TheFile)}, r \in OneRand, k \in KeyVals :
       LET res == FuseOpen(fuse, file, ino, r, k, Held)
       IN fuse' = Issued(fuse, res.fs) /\ file' = res.file
  /\ UNCHANGED Apart
DoFhOpendir ==
  /\ Asked /\ fuse.next_handle \in HandleCap
  /\ fuse' = Issued(fuse, FuseOpendir(fuse, FUSE_ROOT_ID))
  /\ UNCHANGED file /\ UNCHANGED Apart

\* A read request: the handler runs up to its seek, then one read of
\* try_read_exact at a time.
DoFhRead(handles, offsets, sizes) ==
  /\ Asked
  /\ \E fh \in handles, offset \in offsets, size \in sizes :
       fuse' = FuseReadFh(fuse, file, fh, offset, size, Held, checks)
  /\ UNCHANGED file /\ UNCHANGED Apart
FhReadMore ==
  /\ fuse.req.op = "read" /\ last = NoCall
  /\ fuse' = FuseReadMore(fuse, file, Held, checks)
  /\ UNCHANGED file /\ UNCHANGED Apart

\* A write request, likewise: the seek, then one write of write_all at a
\* time.  The data ends within MaxLen bytes of cleartext.
DoFhWrite(handles, offsets, bufs, nonces) ==
  /\ Asked
  /\ \E fh \in handles, offset \in offsets, data \in bufs, rs \in nonces :
       /\ fh \in DOMAIN fuse.open_files =>
            CleartextPos(SeekInner(file, fuse.open_files[fh].pos, Start(offset),
                                   checks).pos) + Len(data) <= MaxLen
       /\ fuse' = FuseWriteFh(fuse, file, fh, offset, data, rs, Held, checks)
  /\ UNCHANGED file /\ UNCHANGED Apart
FhWriteMore ==
  /\ fuse.req.op = "write" /\ last = NoCall
  /\ \E res \in {FuseWriteMore(fuse, file, Held, checks)} :
       fuse' = res.fs /\ file' = res.file
  /\ UNCHANGED Apart

DoFhFlush ==
  /\ Asked /\ \E fh \in AskedHandles : fuse' = FuseFlush(fuse, fh, Held)
  /\ UNCHANGED file /\ UNCHANGED Apart
DoFhFsync ==
  /\ Asked /\ \E fh \in AskedHandles : fuse' = FuseFsync(fuse, fh)
  /\ UNCHANGED file /\ UNCHANGED Apart
DoFhRelease ==
  /\ Asked /\ \E fh \in AskedHandles : fuse' = Issued(fuse, FuseRelease(fuse, fh))
  /\ UNCHANGED file /\ UNCHANGED Apart
DoFhReleasedir ==
  /\ Asked /\ \E fh \in AskedHandles : fuse' = FuseReleasedir(fuse, fh)
  /\ UNCHANGED file /\ UNCHANGED Apart

\* setattr goes by the inode, not by a handle: no lock of a stream is taken.
Sizes == {Some(0), Some(1)}
Modes == {None, Some(1)}
DoFhSetattr ==
  /\ Asked /\ TheFile \in fuse.tree /\ Exists(fuse.vault, TheFile)
  /\ \E mode \in Modes, size \in Sizes :
       LET res == FuseSetattr(file, perm, mode, size)
       IN /\ file' = res.file
          /\ perm' = res.perm
          /\ fuse' = [fuse EXCEPT
                        !.reply = [FileReply("setattr", res.err, 0) EXCEPT
                                     !.ino = InodeOf(TheFile), !.size = res.size,
                                     !.asked = size]]
  /\ UNCHANGED <<opened, fpos, header, lock, pc, checks, last, rt, call, exists>>

\* Another process has the ciphertext file open as a stream of its own
\* (stream 2), writes to it and asks its length: the try_write or try_read
\* at the head of its call, then the body, at the end of which the lock is
\* let go.  Its calls fall between the requests of the kernel and between
\* the steps of a handler.
OtherOps == {"open", "write", "len"}
OtherBufs == {Pattern(1, CHUNK_LEN)}
OtherAcquire ==
  /\ fuse.reply.op = "none" /\ \E op \in OtherOps : Acquire(2, op)
OtherOpen == FinishOpen(2)
OtherLen == FinishLen(2)
OtherWrite ==
  /\ Inside(2, "write") /\ \E buf \in OtherBufs, r \in OneRand : WriteBody(2, buf, r)
  /\ Release(2)

NextFuseHandles ==
  \/ DoFhCreate(HandleCap, {FUSE_ROOT_ID, InodeOf(<<1>>)}) \/ FhCreateMore(OneRand)
  \/ DoFhOpen(HandleCap) \/ DoFhOpendir
  \/ DoFhRead(AskedHandles, {0}, {1}) \/ FhReadMore
  \/ DoFhWrite(AskedHandles, {0}, {Pattern(v, 1) : v \in Byte}, {<<0>>}) \/ FhWriteMore
  \/ DoFhFlush \/ DoFhFsync \/ DoFhRelease \/ DoFhReleasedir \/ FuseReplied
  \/ OtherAcquire \/ OtherOpen \/ OtherWrite \/ OtherLen \/ Resume

SpecFuseHandles == InitFuseEmpty /\ [][NextFuseHandles]_vars

\* ------------------------------- the FUSE file handlers (SpecFuseFile)
\* The kernel creates a file and sends read and write requests for the
\* handle, each with the offset it is for, and setattr requests for the
\* file, in both builds.
Offsets == {0, 1, CHUNK_LEN + 1, MaxLen + 1}
NonceRuns == {Pattern(v, MaxLen + 2) : v \in OneRand}

NextFuseFile ==
  \/ DoFhCreate({0}, {FUSE_ROOT_ID}) \/ FhCreateMore(OneRand) \/ DoFhOpen({0})
  \/ DoFhRead({0}, Offsets, FewBufLens) \/ FhReadMore
  \/ DoFhWrite({0}, Offsets, FewBufs, NonceRuns) \/ FhWriteMore
  \/ DoFhSetattr \/ FuseReplied
  \/ OtherAcquire \/ OtherOpen \/ OtherWrite \/ OtherLen \/ Resume

SpecFuseFile == InitFuseFile /\ [][NextFuseFile]_vars

\* ------------------------------ two streams opening (SpecRace, SpecLockTorn)
\* Two threads open the same path, each with the random bytes of its own
\* header, and read, write and ask the length through their streams.
\* SpecRace starts on the empty file, SpecLockTorn on a stored file with a
\* damaged header or a flipped chunk bit, where opens, reads and writes
\* fail inside the lock.
RaceOps == {"open", "read", "write", "len"}
RaceBufs == {Pattern(0, 1), Pattern(1, CHUNK_LEN)}
FinishOpenFresh(s) ==
  /\ Inside(s, "open") /\ \E r \in RandVals, k \in KeyVals : OpenBody(s, r, k)
  /\ Release(s)
FinishWriteFew(s) ==
  /\ Inside(s, "write") /\ \E buf \in RaceBufs, r \in OneRand : WriteBody(s, buf, r)
  /\ Release(s)


\* create_new is two steps before the body of its open: File::create_new,
\* which makes the file or fails on one that is there, and the try_write at
\* the head of Self::open.  What it returns from there on is what open
\* returns.
StartCreateNew(s) ==
  /\ last = NoCall /\ pc[s] = "idle" /\ ~opened[s]
  /\ LET made == FileCreateNew(exists, file)
     IN /\ exists' = made.present
        /\ file' = made.file
        /\ pc' = [pc EXCEPT ![s] = IF made.err = "none" THEN "created" ELSE @]
        /\ last' = IF made.err = "none" THEN last
                   ELSE Returned(s, "create_new", NoArgs, 0, <<>>, made.err)
  /\ UNCHANGED <<opened, fpos, header, lock, perm, checks, rt, call, fuse>>
AcquireCreated(s) ==
  /\ last = NoCall /\ pc[s] = "created" /\ CanLock(s, "open")
  /\ lock' = [lock EXCEPT ![s] = LockKind("open")]
  /\ pc' = [pc EXCEPT ![s] = "open"]
  /\ UNCHANGED <<file, opened, fpos, header, perm, checks, last, rt, call, fuse, exists>>
BusyCreated(s) ==
  /\ last = NoCall /\ pc[s] = "created" /\ ~CanLock(s, "open")
  /\ pc' = [pc EXCEPT ![s] = "idle"]
  /\ last' = Returned(s, "open", NoArgs, 0, <<>>, "Busy")
  /\ UNCHANGED <<file, opened, fpos, header, lock, perm, checks, rt, call, fuse, exists>>

\* On a path that names a file create_new only fails.
NextStored ==
  \/ \E s \in Streams, op \in RaceOps : Acquire(s, op)
  \/ \E s \in Streams, op \in RaceOps : Busy(s, op)
  \/ \E s \in Streams : FinishOpenFresh(s)
  \/ \E s \in Streams : FinishRead(s)
  \/ \E s \in Streams : FinishWriteFew(s)
  \/ \E s \in Streams : FinishLen(s)
  \/ \E s \in Streams : Close(s)
  \/ Resume

NextRace ==
  \/ NextStored
  \/ \E s \in Streams : OpenMissing(s)
  \/ \E s \in Streams : StartCreateNew(s)
  \/ \E s \in Streams : AcquireCreated(s)
  \/ \E s \in Streams : BusyCreated(s)

\* The path names the empty file, or no file yet.
InitRace ==
  /\ file = <<>>
  /\ opened = [s \in Streams |-> FALSE]
  /\ fpos = [s \in Streams |-> 0]
  /\ header = [s \in Streams |-> NoHeader]
  /\ lock = [s \in Streams |-> "none"]
  /\ pc = [s \in Streams |-> "idle"]
  /\ perm = 0
  /\ checks = TRUE
  /\ last = NoCall
  /\ rt = NoRoundTrip
  /\ call = NoCryptorCall
  /\ fuse = NewFuse
  /\ exists \in BOOLEAN

SpecRace == InitRace /\ [][NextRace]_vars

LockTornSources ==
  LET kept == Stored(Pattern(0, 2), 0, 1)
  IN {Damaged(kept)} \cup ChunkFlips(kept)
InitLockTorn == (InitTorn \/ InitOpen) /\ checks /\ exists /\ file \in LockTornSources

\* On the damaged file the two streams call every operation of a stream:
\* open, read, write, seek, flush, len, metadata and set_permissions.
NextLockTorn ==
  \/ \E s \in Streams, op \in Ops : Acquire(s, op)
  \/ \E s \in Streams, op \in Ops : Busy(s, op)
  \/ \E s \in Streams : FinishOpenFresh(s)
  \/ \E s \in Streams : FinishRead(s)
  \/ \E s \in Streams : FinishWriteFew(s)
  \/ \E s \in Streams : FinishSeek(s)
  \/ \E s \in Streams : FinishFlush(s)
  \/ \E s \in Streams : FinishLen(s)
  \/ \E s \in Streams : FinishMetadata(s)
  \/ \E s \in Streams : FinishSetPermissions(s)
  \/ \E s \in Streams : Close(s)
  \/ Resume

SpecLockTorn == InitLockTorn /\ [][NextLockTorn]_vars

\* ----------------------------------------------------------------- claims
\* The cleartext a reader holding header hdr finds in the file: its chunks
\* decrypted in order (a chunk that does not authenticate shows as -1).
RECURSIVE ChunksFrom(_, _, _)
ChunksFrom(rest, hdr, i) ==
  IF rest = <<>> THEN <<>>
  ELSE LET chunk == DecryptChunk(Take(rest, max_encrypted_chunk_len), hdr, i)
       IN (IF chunk.ok THEN chunk.val ELSE <<0 - 1>>)
            \o ChunksFrom(Drop(rest, max_encrypted_chunk_len), hdr, i + 1)
Cleartext(f, hdr) == ChunksFrom(Drop(f, encrypted_header_len), hdr, 0)

\* C1: on an empty source, writing all of x, flushing, seeking to Start(0)
\* and reading until read returns 0 yields exactly x, and len() is |x|;
\* no step of the way fails.
C1_RoundTrip ==
  /\ rt.phase # "failed"
  /\ rt.phase = "done" =>
       /\ rt.got = rt.payload
       /\ last.op = "len" /\ last.ret = Len(rt.payload)

\* A payload of two full chunks has come back whole.
C1_Witness ==
  /\ rt.phase = "done"
  /\ Len(rt.payload) = 2 * CHUNK_LEN
  /\ rt.got = rt.payload

\* The stream the last call was made on, its cleartext position and the
\* cleartext, before (unprimed) and after (primed) the call.
Caller == last'.stream
PosBefore == CleartextPos(fpos[Caller])
PosAfter == CleartextPos(fpos'[Caller])
TextBefore == Cleartext(file, header[Caller])
TextAfter == Cleartext(file', header[Caller])

\* C2: a write of a non-empty buf at cleartext position p returns
\* w = min(|buf|, CHUNK_LEN - p mod CHUNK_LEN), replaces cleartext bytes
\* [p, p+w) by buf[0..w) and leaves every other byte as it was, makes the
\* length max(len, p+w), and leaves the position at p+w.
C2_WriteReplacesBytes ==
  [][(last'.op = "write" /\ last'.args.buf # <<>>) =>
       LET buf == last'.args.buf
           p == PosBefore
           len == CleartextLen(file)
           w == Min(Len(buf), CHUNK_LEN - (p % CHUNK_LEN))
       IN /\ p <= len
          /\ last'.err = "none"
          /\ last'.ret = w
          /\ TextAfter = Take(TextBefore, p) \o Take(buf, w) \o Drop(TextBefore, p + w)
          /\ CleartextLen(file') = Max(len, p + w)
          /\ Len(TextAfter) = CleartextLen(file')
          /\ PosAfter = p + w]_vars

\* A write has replaced the first byte of a partial tail chunk that holds
\* two, behind a full chunk: the chunk is rewritten at its old length.
C2_Witness ==
  /\ last.op = "write" /\ last.err = "none" /\ last.ret = 1
  /\ CleartextLen(file) = CHUNK_LEN + 2
  /\ CleartextPos(fpos[1]) = CHUNK_LEN + 1

\* C3: a read into an empty buf or at the end of the file returns 0;
\* otherwise it returns r = min(|buf|, min(len, end of the chunk) - p) >= 1,
\* hands out cleartext bytes [p, p+r), leaves the position at p+r; the file
\* is as it was.
C3_ReadReturnsChunkBytes ==
  [][(last'.op = "read") =>
       LET buf_len == last'.args.buf_len
           p == PosBefore
           len == CleartextLen(file)
           r == Min(buf_len, Min(len, ((p \div CHUNK_LEN) + 1) * CHUNK_LEN) - p)
       IN /\ file' = file
          /\ last'.err = "none"
          /\ IF buf_len = 0 \/ p = len
             THEN last'.ret = 0 /\ last'.data = <<>> /\ PosAfter = p
             ELSE /\ r >= 1
                  /\ last'.ret = r
                  /\ last'.data = SubSeq(TextBefore, p + 1, p + r)
                  /\ PosAfter = p + r]_vars

\* A read has stopped short of its buffer at the end of the first chunk of a
\* two-chunk file.
C3_Witness ==
  /\ last.op = "read" /\ last.err = "none"
  /\ last.ret = 1 /\ last.args.buf_len > 1
  /\ CleartextPos(fpos[1]) = CHUNK_LEN
  /\ CleartextLen(file) > CHUNK_LEN

\* The seek the last call made, and the cleartext length it found.
Sf == last'.args.sf
LenBefore == CleartextLen(file)

\* C4: seek(Start(n)) returns min(n, len) and leaves the position there, for
\* every n >= 0; a seek to the current position moves neither the cursor nor
\* the file.
C4_SeekStartClamps ==
  [][(last'.op = "seek" /\ Sf.kind = "Start") =>
       /\ last'.err = "none"
       /\ last'.ret = Min(Sf.n, LenBefore)
       /\ PosAfter = Min(Sf.n, LenBefore)
       /\ file' = file
       /\ (Sf.n = PosBefore => fpos' = fpos)]_vars

\* C5: seek(End(n)) with n <= 0 returns max(0, len - |n|) and leaves the
\* position there; seek(End(0)) returns len.
C5_SeekEndFromEnd ==
  [][(last'.op = "seek" /\ Sf.kind = "End" /\ Sf.n <= 0) =>
       /\ last'.err = "none"
       /\ last'.ret = Max(0, LenBefore + Sf.n)
       /\ PosAfter = Max(0, LenBefore + Sf.n)]_vars

\* C6: seek(Current(n)) returns min(len, max(0, p + n)) for every signed n,
\* without wrap-around or overflow, and Current(0) returns p without moving.
C6_SeekCurrentSaturates ==
  [][(last'.op = "seek" /\ Sf.kind = "Current") =>
       /\ last'.err = "none"
       /\ last'.ret = Min(LenBefore, Max(0, PosBefore + Sf.n))
       /\ PosAfter = Min(LenBefore, Max(0, PosBefore + Sf.n))
       /\ (Sf.n = 0 => fpos' = fpos)]_vars

\* The lock table the claims state: the operations under the exclusive lock,
\* and whether the lock of op is free for stream s given what the other
\* descriptors hold.
ExclusiveOps == {"open", "write", "flush", "set_permissions"}
SharedOps == {"read", "seek", "len", "metadata"}
Available(s, op) ==
  \A t \in Streams \ {s} :
    IF op \in ExclusiveOps THEN lock[t] = "none" ELSE lock[t] # "exclusive"

\* C7: of two streams on one file at most one is inside an exclusive-lock
\* operation, and while one is, the other is inside no operation at all.
C7_WriterExcludesAll ==
  \A s \in Streams, t \in Streams :
    (s # t /\ pc[s] \in ExclusiveOps) => pc[t] = "idle"

\* One stream is inside write and the other, having tried, is outside.
C7_Witness ==
  /\ pc[1] = "write" /\ pc[2] = "idle" /\ opened[2]
  /\ lock[1] = "exclusive"

\* Both streams are inside shared-lock operations at once.
C7_SharedTogether ==
  /\ pc[1] = "read" /\ pc[2] = "seek"
  /\ lock[1] = "shared" /\ lock[2] = "shared"

\* C8: no operation waits for its lock: a stream is inside an operation only
\* with that operation's lock in hand, it enters only when the lock is free,
\* and a call that finds the lock taken returns Busy in that same step,
\* leaving the file's bytes and every cursor as they were; Busy is returned
\* in no other case.
C8_BusyAtOnce ==
  [][/\ \A s \in Streams :
          /\ (pc'[s] # "idle") =>
               lock'[s] = (IF pc'[s] \in ExclusiveOps THEN "exclusive" ELSE "shared")
          /\ (pc[s] = "idle" /\ pc'[s] # "idle") => Available(s, pc'[s])
     /\ (last'.err = "Busy" /\ last' # last) =>
          /\ ~Available(Caller, last'.op)
          /\ file' = file /\ fpos' = fpos /\ perm' = perm
          /\ lock' = lock /\ pc' = pc
     /\ \A s \in Streams, op \in Ops :
          (ENABLED Busy(s, op)) <=> 
             (last = NoCall /\ pc[s] = "idle" /\ Callable(s, op) /\ ~Available(s, op))]_vars

\* A write has been turned away with Busy while the other stream was inside
\* a read, the file holding data and the cursor off the start.
C8_Witness ==
  /\ last.err = "Busy" /\ last.op = "write" /\ last.stream = 2
  /\ pc[1] = "read"
  /\ CleartextPos(fpos[2]) > 0

\* C9: open writes a header only when the source is empty, and then the
\* source is exactly the encrypted header; on a non-empty source it writes
\* nothing and holds the header decrypted from the first bytes.  After open
\* the cleartext position is 0 and the length is that of what was stored.
C9_OpenWritesHeaderOnlyIfEmpty ==
  [][(last'.op = "open") =>
       /\ IF file = <<>>
          THEN /\ last'.err = "none"
               /\ file' = EncryptHeader(header'[Caller])
               /\ Len(file') = encrypted_header_len
          ELSE /\ file' = file
               /\ last'.err = "none" =>
                    DecryptHeader(Take(file, encrypted_header_len))
                      = Ok(header'[Caller])
       /\ last'.err = "none" =>
            /\ PosAfter = 0
            /\ CleartextLen(file') = CleartextLen(file)]_vars

\* C10: once the file has a header its bytes 0..H stay as they are, whatever
\* is read, written, sought, flushed or re-opened on any stream; every write
\* lands at a ciphertext offset >= H.
C10_HeaderImmutable ==
  [][Len(file) >= encrypted_header_len =>
       Take(file', encrypted_header_len) = Take(file, encrypted_header_len)]_vars

\* A write has changed the first chunk of a file that had two.
C10_Witness ==
  /\ last.op = "write" /\ last.err = "none" /\ last.ret >= 1
  /\ CleartextPos(fpos[last.stream]) <= CHUNK_LEN
  /\ CleartextLen(file) > CHUNK_LEN

\* The encrypted chunks stored behind the header, in order.
RECURSIVE StoredChunks(_)
StoredChunks(rest) ==
  IF rest = <<>> THEN <<>>
  ELSE <<Take(rest, max_encrypted_chunk_len)>>
         \o StoredChunks(Drop(rest, max_encrypted_chunk_len))
ChunksOf(f) == StoredChunks(Drop(f, encrypted_header_len))
\* Chunks a cleartext of len bytes takes: ceil(len / CHUNK_LEN).
ChunkCount(len) == (len + CHUNK_LEN - 1) \div CHUNK_LEN
ChunkOverhead == max_encrypted_chunk_len - max_chunk_len

\* C11: once a stream has been opened on the empty source, after any writes
\* and seeks the file is well formed: its length is
\* H + len + ceil(len / CHUNK_LEN) * D for the cleartext length len, every
\* chunk but the last holds CHUNK_LEN cleartext bytes, no chunk is empty,
\* and every chunk decrypts under its index.
C11_FileWellFormed ==
  Len(file) > 0 =>
    LET len == CleartextLen(file)
        chunks == ChunksOf(file)
        stored == DecryptHeader(Take(file, encrypted_header_len))
    IN /\ stored.ok
       /\ Len(file) = encrypted_header_len + len + ChunkCount(len) * ChunkOverhead
       /\ Len(chunks) = ChunkCount(len)
       /\ \A i \in 1 .. Len(chunks) :
            /\ Len(chunks[i]) > ChunkOverhead
            /\ (i < Len(chunks) => Len(chunks[i]) = max_encrypted_chunk_len)
            /\ DecryptChunk(chunks[i], stored.val, i - 1).ok

\* The file holds a full chunk and a partial one behind it, and the last
\* call wrote into the full one.
C11_Witness ==
  /\ last.op = "write" /\ last.err = "none" /\ last.ret >= 1
  /\ CleartextLen(file) = CHUNK_LEN + 1
  /\ CleartextPos(fpos[1]) <= CHUNK_LEN

\* The last call decrypted what the call before it encrypted, handed over
\* exactly as it came out.
Intact == call.input = call.sent

\* C12: decrypt_header and decrypt_chunk fail with MacMismatch, returning
\* no header and no plaintext, whenever the stored MAC differs from the one
\* recomputed over the input: an encrypted header or chunk with any single
\* bit flipped does not decrypt.
C12_TamperedFailsMac ==
  (/\ call.op \in {"decrypt_header", "decrypt_chunk"}
   /\ call.input \in Flips(call.sent)
   /\ call.asked_number = call.number)
    => call.out.kind = "MacMismatch"

\* C13: a chunk encrypted under chunk number i does not decrypt under any
\* j # i: decrypt_chunk(encrypt_chunk(c, h, i), h, j) fails with MacMismatch.
C13_OtherNumberFailsMac ==
  (/\ call.op = "decrypt_chunk" /\ Intact
   /\ call.asked_number # call.number)
    => call.out.kind = "MacMismatch"

\* C14: decrypt_header(encrypt_header(h)) = h for every header h, under any
\* master key.
C14_HeaderRoundTrip ==
  (call.op = "decrypt_header" /\ Intact) => call.out = Returns(call.header)

C14_Witness ==
  /\ call.op = "decrypt_header" /\ Intact
  /\ call.key # MasterKey
  /\ call.header = NewHeader(1, 0)
  /\ call.out.kind = "returns"

\* C15: decrypt_chunk(encrypt_chunk(c, h, i), h, i) = c for every chunk c of
\* 1 to CHUNK_LEN bytes, every header h and every chunk number i.
C15_ChunkRoundTrip ==
  (/\ call.op = "decrypt_chunk" /\ Intact
   /\ call.asked_number = call.number
   /\ Len(call.chunk) \in 1 .. CHUNK_LEN)
    => call.out = Returns(call.chunk)

C15_Witness ==
  /\ call.op = "decrypt_chunk" /\ Intact
  /\ call.asked_number = 2 /\ call.number = 2
  /\ Len(call.chunk) = CHUNK_LEN
  /\ \E i, j \in 1 .. CHUNK_LEN : call.chunk[i] # call.chunk[j]
  /\ call.out.kind = "returns"

\* C16: within one directory name encryption is a deterministic bijection:
\* decrypt_name(encrypt_name(n, d), d) = n; decrypt_name returns for nothing
\* but a name encrypt_name produced for that directory, no retouched name
\* and no other directory's; and encrypt_name(decrypt_name(e, d), d) = e for
\* every such e, so that the second encrypt_name call on equal (n, d) gives
\* the encrypted name the first one gave.
C16_NameBijection ==
  /\ (call.op = "decrypt_name" /\ Intact /\ call.asked_dir = call.dir)
       => call.out = Returns(call.name)
  /\ (call.op = "decrypt_name" /\ call.out.kind = "returns")
       => (Intact /\ call.asked_dir = call.dir)
  /\ call.op = "encrypt_name_again"
       => (call.out = Returns(call.input) /\ call.out = Returns(call.sent))

C16_Witness ==
  /\ call.op = "encrypt_name_again"
  /\ Len(call.name) = MaxNameLen /\ call.dir # <<>>
  /\ call.asked_dir = call.dir
  /\ call.out = Returns(call.sent)

\* C17: chunk sizes are validated: encrypt_chunk on an empty chunk or one
\* longer than CHUNK_LEN, and decrypt_chunk on an input shorter than nonce
\* + MAC + 1 or longer than ENCRYPTED_CHUNK_LEN, end with InvalidChunkSize,
\* with no output and no panic.
C17_ChunkSizesValidated ==
  /\ (call.op = "encrypt_chunk" /\ Len(call.chunk) \notin 1 .. CHUNK_LEN)
       => call.out.kind = "InvalidChunkSize"
  /\ (/\ call.op = "decrypt_chunk"
      /\ Len(call.input) \notin (NONCE_LEN + MAC_LEN + 1) .. ENCRYPTED_CHUNK_LEN)
       => call.out.kind = "InvalidChunkSize"

\* C18: decrypt_header on an input whose length is not ENCRYPTED_HEADER_LEN
\* fails with an error: it returns no header and does not panic.
C18_HeaderLengthChecked ==
  (call.op = "decrypt_header" /\ Len(call.input) # ENCRYPTED_HEADER_LEN)
    => call.out.kind \notin {"returns", "panics"}

\* C19: decrypt_name ends with InvalidName, not with a name or a panic, when
\* the encrypted name is not valid base64 or SIV authentication fails, as
\* under a parent directory other than the one it was encrypted for.
C19_InvalidNameReported ==
  (/\ call.op = "decrypt_name"
   /\ LET decoded == Base64UrlDecode(call.input)
      IN \/ ~decoded.ok
         \/ ~SivDecrypt(call.key.mac_key, call.key.enc_key, call.asked_dir,
                        decoded.val).ok)
    => call.out.kind = "InvalidName"

\* The stored chunk with number n of the file f, <<>> if f has none.
StoredChunk(f, n) ==
  IF n < Len(ChunksOf(f)) THEN ChunksOf(f)[n + 1] ELSE <<>>

\* C20: a write that fails because the chunk it has to rewrite does not
\* decrypt, or because the replacement does not encrypt, returns that error
\* and leaves every byte of the file as it was; a write that returns Ok
\* leaves the chunk it wrote to whole (it authenticates under its number and
\* holds the bytes written, at their offset) and every other stored chunk
\* and the header as they were.  No write leaves a chunk part old, part new.
C20_WriteAllOrNothing ==
  [][(last'.op = "write" /\ last'.args.buf # <<>>) =>
       LET n == PosBefore \div CHUNK_LEN
           offset == PosBefore % CHUNK_LEN
           hdr == header[Caller]
           old == DecryptChunk(StoredChunk(file, n), hdr, n)
           new == DecryptChunk(StoredChunk(file', n), hdr, n)
       IN /\ last'.err # "none" =>
               /\ file' = file
               /\ ~old.ok /\ last'.err = old.err
               /\ last'.ret = 0
          /\ last'.err = "none" =>
               /\ new.ok
               /\ last'.ret >= 1
               /\ SubSeq(new.val, offset + 1, offset + last'.ret)
                    = Take(last'.args.buf, last'.ret)
               /\ Take(file', encrypted_header_len)
                    = Take(file, encrypted_header_len)
               /\ \A i \in 0 .. (Len(ChunksOf(file)) - 1) :
                    i # n => StoredChunk(file', i) = StoredChunk(file, i)
               /\ Len(ChunksOf(file')) = Max(Len(ChunksOf(file)), n + 1)]_vars

\* A write into a stored chunk that does not authenticate has failed with
\* MacMismatch, short of the chunk's end and with another chunk behind it.
C20_Witness ==
  /\ last.op = "write" /\ last.err = "MacMismatch"
  /\ Len(last.args.buf) = 1
  /\ Len(ChunksOf(file)) = 2
  /\ ~DecryptChunk(StoredChunk(file, 0), header[1], 0).ok

\* C21: a read during which the chunk does not authenticate or decrypt
\* returns an error and copies nothing into the caller's buffer: no byte of
\* buf is written, no byte count is reported, and the file is as it was.
C21_FailedReadCopiesNothing ==
  [][(last'.op = "read" /\ last'.err \in {"MacMismatch", "InvalidChunkSize"}) =>
       LET n == PosBefore \div CHUNK_LEN
       IN /\ ~DecryptChunk(StoredChunk(file, n), header[Caller], n).ok
          /\ last'.data = <<>>
          /\ last'.ret = 0
          /\ file' = file]_vars

\* A read asked for a full chunk's worth from inside a stored chunk that
\* does not authenticate, and failed.
C21_Witness ==
  /\ last.op = "read" /\ last.err = "MacMismatch"
  /\ last.args.buf_len = CHUNK_LEN
  /\ Len(ChunksOf(file)) = 2
  /\ last.data = <<>>

\* C24: encrypt_header returns exactly ENCRYPTED_HEADER_LEN bytes, and
\* encrypt_chunk of an n-byte chunk, whenever it returns, returns exactly
\* n + NONCE_LEN + MAC_LEN bytes and never more than ENCRYPTED_CHUNK_LEN.
C24_OutputLengths ==
  /\ call.op = "encrypt_header" => Len(call.out.val) = ENCRYPTED_HEADER_LEN
  /\ (call.op = "encrypt_chunk" /\ call.out.kind = "returns") =>
       /\ Len(call.out.val) = Len(call.chunk) + NONCE_LEN + MAC_LEN
       /\ Len(call.out.val) <= ENCRYPTED_CHUNK_LEN

\* The cursor pos is where a seek to the cleartext position it stands for
\* puts it, and that position is inside the file f.
Canonical(f, pos) ==
  /\ pos = DesiredPos(CleartextPos(pos))
  /\ CleartextPos(pos) <= CleartextLen(f)

\* C25: for every cleartext offset p <= len, seek(Start(p)) leaves the
\* backing file's cursor at H + floor(p/C)*E + (if p mod C > 0 then (E - C)
\* + p mod C else 0), which converts back to p; and after every operation
\* the cursor of an open stream is of this form for a position <= len.
C25_CursorCanonical ==
  [][/\ \A s \in Streams : opened'[s] => Canonical(file', fpos'[s])
     /\ (/\ last'.op = "seek" /\ last'.args.sf.kind = "Start"
         /\ last'.args.sf.n <= CleartextLen(file)) =>
          LET p == last'.args.sf.n
              C == max_chunk_len
              E == max_encrypted_chunk_len
              H == encrypted_header_len
          IN /\ fpos'[Caller] = H + (p \div C) * E
                  + (IF p % C > 0 THEN (E - C) + (p % C) ELSE 0)
             /\ CleartextPos(fpos'[Caller]) = p
             /\ last'.ret = p]_vars

\* C26: encrypt_chunk draws the chunk's nonce at random, independently of
\* the file header's nonce: the nonce at the front of an encrypted chunk is
\* not determined by (chunk, header, chunk number), so the same nonce would
\* have been stored for a header with any other nonce.
C26_ChunkNonceIndependent ==
  (call.op = "encrypt_chunk" /\ call.out.kind = "returns") =>
    \A h \in Headers :
      Take(V1EncryptChunk(call.key, call.chunk, h, call.number, checks).val,
           NONCE_LEN)
        = Take(call.out.val, NONCE_LEN)

\* C27: the AES-SIV key of the name helpers is enc_key followed by mac_key,
\* in aes_siv_encrypt and in aes_siv_decrypt: AES-SIV takes the first half
\* of its key for the synthetic IV and the second for the keystream, so an
\* encrypted name is the Base64Url text of the SIV ciphertext whose IV is
\* made under enc_key and whose keystream is made under mac_key.
C27_SivKeyEncFirst ==
  /\ call.op = "encrypt_name" =>
       /\ V1SivEncryptKey(call.key) = <<call.key.enc_key, call.key.mac_key>>
       /\ call.sent = Base64UrlEncode(SivEncrypt(call.key.enc_key,
                                                 call.key.mac_key,
                                                 call.dir, call.name))
  /\ call.op = "decrypt_name" =>
       V1SivDecryptKey(call.key) = <<call.key.enc_key, call.key.mac_key>>

\* C28: seek(End(n)) with n > 0 is clamped to the end of the file: it
\* returns len and leaves the position at len.
C28_SeekPastEndClamps ==
  [][(/\ last'.op = "seek" /\ last'.args.sf.kind = "End"
      /\ last'.args.sf.n > 0) =>
       /\ last'.err = "none"
       /\ last'.ret = CleartextLen(file)
       /\ PosAfter = CleartextLen(file)]_vars

\* C29: in the FUSE read and write handlers the seek to the kernel's offset
\* returns that offset (debug_assert_eq!(pos, offset) holds) for every
\* offset >= 0 and every file state, offsets past the cleartext length
\* included; a write at such an offset stores the data at that offset and
\* grows the file to offset + |data|.  The seek is the step that takes a
\* request with an open handle up while no other descriptor holds the
\* lock; the write is looked at when no other stream has the file open.
C29_FuseSeekReturnsOffset ==
  [][/\ (/\ Asked /\ Held = "none"
         /\ \/ fuse'.req.op \in {"read", "write"}
            \/ /\ fuse'.reply.op \in {"read", "write"}
               /\ fuse'.reply.fh \in DOMAIN fuse.open_files) =>
          LET taken == IF fuse'.req.op # "none" THEN fuse'.req ELSE fuse'.reply
          IN /\ SeekInner(file, fuse.open_files[taken.fh].pos,
                          Start(taken.offset), checks).ret = taken.offset
             /\ fuse'.reply.err # "panic"
     /\ (/\ fuse.req.op = "write" /\ fuse'.reply.op = "write"
         /\ ~opened[2] /\ pc[2] = "idle") =>
          LET q == fuse.req
          IN /\ fuse'.reply.err = "none"
             /\ fuse'.reply.room = Len(q.data)
             /\ CleartextLen(file') >= q.offset + Len(q.data)
             /\ SubSeq(Cleartext(file', fuse.open_files[q.fh].header),
                       q.offset + 1, q.offset + Len(q.data)) = q.data
             /\ CleartextLen(file') = Max(q.len0, q.offset + Len(q.data))]_vars


\* The directory holds at least one entry.
HoldsEntries(vault, dir) ==
  \E p \in DOMAIN vault : Under(p, dir) /\ vault[p] # "none"

\* C22: an rmdir of a directory that is not empty is answered ENOTEMPTY,
\* takes nothing from the vault and leaves the inode table as it was; an
\* rmdir changes the vault only if its target held no entry.
C22_RmdirNotEmpty ==
  [][(AtRest /\ fuse'.reply.op = "rmdir" /\ Known(fuse.tree, fuse'.reply.parent)) =>
       LET target == Append(GetPath(fuse.tree, fuse'.reply.parent), fuse'.reply.name)
       IN /\ (IsDir(fuse.vault, target) /\ HoldsEntries(fuse.vault, target)) =>
               /\ fuse'.reply.err = "ENOTEMPTY"
               /\ fuse'.vault = fuse.vault
               /\ fuse'.tree = fuse.tree
          /\ fuse'.vault # fuse.vault => ~HoldsEntries(fuse.vault, target)]_vars

\* An rmdir of directory 1, which holds the file 1/1, was answered ENOTEMPTY.
C22_Witness ==
  /\ fuse.reply.op = "rmdir" /\ fuse.reply.err = "ENOTEMPTY"
  /\ fuse.reply.name = 1 /\ Exists(fuse.vault, <<1, 1>>)


\* What a readdir on the handle from offset 0 with room for every entry
\* hands back: the name, the kind and the offset of each entry.
Listing(fs, fh) ==
  LET page == FuseReaddir(fs, fh, 0, Cardinality(DirNames)).reply.page
  IN [k \in DOMAIN page |->
        [name |-> page[k].name, kind |-> page[k].kind, offset |-> page[k].offset]]

\* C23: a directory handle is a snapshot.  What readdir returns for a
\* handle is the same before and after every step between its opendir and
\* its releasedir, whichever of mkdir, mknod, symlink, unlink, rmdir and
\* rename the step is; at opendir it is the children the directory has at
\* that moment; and each page a readdir replies with is a run of it.
C23_HandleIsSnapshot ==
  [][/\ \A h \in DOMAIN fuse.open_dirs \cap DOMAIN fuse'.open_dirs :
          Listing(fuse', h) = Listing(fuse, h)
     /\ (AtRest /\ fuse'.reply.op = "opendir" /\ fuse'.reply.err = "none") =>
          LET dir == GetPath(fuse.tree, fuse'.reply.parent)
              got == Listing(fuse', fuse'.reply.fh)
              there == {n \in DirNames : Exists(fuse.vault, Append(dir, n))}
          IN /\ {got[k].name : k \in DOMAIN got} = there
             /\ Len(got) = Cardinality(there)
             /\ \A k \in DOMAIN got :
                  got[k].kind = fuse.vault[Append(dir, got[k].name)]
     /\ (AtRest /\ fuse'.reply.op = "readdir" /\ fuse'.reply.err = "none") =>
          LET all == Listing(fuse, fuse'.reply.fh)
              page == fuse'.reply.page
          IN \A k \in DOMAIN page :
               /\ fuse'.reply.offset + k <= Len(all)
               /\ page[k].name = all[fuse'.reply.offset + k].name
               /\ page[k].kind = all[fuse'.reply.offset + k].kind]_vars

\* A readdir replied with an entry that has been removed from the vault
\* since the opendir, and did not reply with one made since.
C23_Witness ==
  /\ fuse.reply.op = "readdir" /\ fuse.reply.err = "none"
  /\ \E k \in DOMAIN fuse.reply.page :
       \A p \in VaultPaths :
         InodeOf(p) = fuse.reply.page[k].inode => ~Exists(fuse.vault, p)
  /\ \E n \in DirNames :
       /\ Exists(fuse.vault, <<n>>)
       /\ \A e \in DOMAIN fuse.open_dirs[fuse.reply.fh] :
            fuse.open_dirs[fuse.reply.fh][e].path # <<n>>
  /\ \E e \in DOMAIN fuse.open_dirs[fuse.reply.fh] :
       Len(fuse.open_dirs[fuse.reply.fh][e].path) = 1


\* C30: paging through a directory handle is exact.  The entries received
\* by readdir calls that start at offset 0 and resume at the offset of the
\* last entry received are the first entries of the handle's listing, each
\* once and in ascending order of the cleartext name; the entry at index i
\* carries the offset i + 1; and when a page comes back empty every entry
\* has been received.
C30_PagingExact ==
  (fuse.pager.on /\ fuse.pager.fh \in DOMAIN fuse.open_dirs) =>
    LET got == fuse.pager.got
        entries == fuse.open_dirs[fuse.pager.fh]
    IN /\ Len(got) <= Len(entries)
       /\ \A k \in DOMAIN got :
            /\ got[k].offset = (k - 1) + 1
            /\ got[k].name = Last(entries[k].path)
            /\ got[k].kind = entries[k].kind
       /\ \A j \in DOMAIN got, k \in DOMAIN got :
            j < k => got[j].name < got[k].name
       /\ fuse.pager.done => Len(got) = Len(entries)

\* Three entries have been received in pages of one or two, and the
\* readdir at offset 3 came back empty.
C30_Witness ==
  /\ fuse.pager.on /\ fuse.pager.done /\ Len(fuse.pager.got) = 3
  /\ fuse.reply.op = "readdir" /\ fuse.reply.err = "none"
  /\ fuse.reply.offset = 3 /\ fuse.reply.page = <<>>
  /\ fuse.pager.fh \in DOMAIN fuse.open_dirs


\* C31: a setattr with the size n that succeeds truncates the file to n
\* cleartext bytes: the attributes it replies with report the size n and
\* the file is n bytes long.
C31_SetattrTruncates ==
  (fuse.reply.op = "setattr" /\ fuse.reply.err = "none") =>
    /\ fuse.reply.size = fuse.reply.asked[1]
    /\ CleartextLen(file) = fuse.reply.asked[1]


\* The handles in a table of the FuseFileSystem.
OpenHandles(fs) == DOMAIN fs.open_files \cup DOMAIN fs.open_dirs

\* C32: handles are never reused or shared.  The handle an open, a create
\* or an opendir replies with is none of the handles replied before it,
\* released or not; no handle is a key of open_files and of open_dirs; and
\* every key is smaller than next_handle.
C32_HandlesNeverReused ==
  [][/\ (AtRest /\ fuse'.reply.op \in {"open", "create", "opendir"}
           /\ fuse'.reply.err = "none") =>
          /\ fuse'.reply.fh \notin fuse.issued
          /\ fuse'.reply.fh \notin OpenHandles(fuse)
          /\ fuse'.reply.fh \in OpenHandles(fuse')
     /\ DOMAIN fuse'.open_files \cap DOMAIN fuse'.open_dirs = {}
     /\ \A h \in OpenHandles(fuse') : h < fuse'.next_handle]_vars

\* The third handle was replied by an open after the first, a file handle,
\* had been released, with a directory handle still open.
C32_Witness ==
  /\ fuse.reply.op = "open" /\ fuse.reply.err = "none" /\ fuse.reply.fh = 2
  /\ fuse.issued = {0, 1, 2}
  /\ DOMAIN fuse.open_dirs = {1} /\ DOMAIN fuse.open_files = {2}


\* C33: a released file handle is closed for good.  After release(fh) the
\* handle is not in open_files and no later step puts it back; a read,
\* write, flush or fsync with a handle that is not in open_files, released
\* or never replied, is answered ENOENT and changes neither the file nor
\* the vault, the handle tables or the counter.
C33_ReleasedHandleIsClosed ==
  [][/\ (AtRest /\ fuse'.reply.op = "release") =>
          fuse'.reply.fh \notin DOMAIN fuse'.open_files
     /\ \A h \in fuse.released : h \notin DOMAIN fuse'.open_files
     /\ (AtRest /\ fuse'.reply.op \in {"read", "write", "flush", "fsync"}
           /\ fuse'.reply.fh \notin DOMAIN fuse.open_files) =>
          /\ fuse'.reply.err = "ENOENT"
          /\ file' = file
          /\ fuse'.open_files = fuse.open_files
          /\ fuse'.open_dirs = fuse.open_dirs
          /\ fuse'.next_handle = fuse.next_handle
          /\ fuse'.vault = fuse.vault]_vars

\* A write with handle 0, released before handle 2 was opened and written
\* through, was answered ENOENT.
C33_Witness ==
  /\ fuse.reply.op = "write" /\ fuse.reply.err = "ENOENT" /\ fuse.reply.fh = 0
  /\ 0 \in fuse.released /\ 2 \in DOMAIN fuse.open_files
  /\ Len(file) > encrypted_header_len


\* C34: the inode table follows the vault only on success.  An unlink,
\* rmdir or rename that is answered with an error, the unknown parent
\* among them, leaves the table and the vault as they were; one that
\* succeeds has changed the vault, leaves no inode at or under the old
\* path, and a rename has the inode of the old path at the new one.  Every
\* other inode stays, but one a stale listing left at the new path.
C34_TreeFollowsVault ==
  [][(AtRest /\ fuse'.reply.op \in {"unlink", "rmdir", "rename"}) =>
       /\ fuse'.reply.err # "none" =>
            fuse'.tree = fuse.tree /\ fuse'.vault = fuse.vault
       /\ fuse'.tree # fuse.tree => fuse'.vault # fuse.vault
       /\ fuse'.reply.err = "none" =>
            LET old == Append(GetPath(fuse.tree, fuse'.reply.parent), fuse'.reply.name)
            IN /\ Exists(fuse.vault, old) /\ ~Exists(fuse'.vault, old)
               /\ \A p \in fuse'.tree : ~AtOrUnder(p, old)
               /\ fuse'.reply.op # "rename" =>
                    \A p \in fuse.tree : ~AtOrUnder(p, old) => p \in fuse'.tree
               /\ fuse'.reply.op = "rename" =>
                    \E new \in VaultPaths :
                      /\ Exists(fuse'.vault, new) /\ ~Exists(fuse.vault, new)
                      /\ old \in fuse.tree => new \in fuse'.tree
                      /\ \A p \in fuse.tree :
                           (~AtOrUnder(p, old) /\ ~AtOrUnder(p, new))
                             => p \in fuse'.tree]_vars

\* An unlink of the directory 2, which has an inode, was answered EIO.
C34_Witness ==
  /\ fuse.reply.op = "unlink" /\ fuse.reply.err = "EIO"
  /\ fuse.reply.parent = FUSE_ROOT_ID /\ fuse.reply.name = 2
  /\ <<2>> \in fuse.tree /\ fuse.vault[<<2>>] = "Directory"


\* C35: a stream holds its lock only while an operation is running.  A
\* stream that is inside no operation holds no lock; when open, read,
\* write, seek, flush, len, metadata or set_permissions has returned, with
\* Ok or with an error, its stream holds none, and the try at the head of
\* any of these operations of the other stream finds the lock free unless
\* that other stream itself is inside an operation.
C35_NoLockAtReturn ==
  /\ \A s \in Streams : pc[s] = "idle" => lock[s] = "none"
  /\ last # NoCall =>
       /\ lock[last.stream] = "none"
       /\ \A t \in Streams \ {last.stream}, op \in Ops :
            CanLockExclusive(t) /\ CanLock(t, op)

\* A write of stream 1 failed on a chunk that does not authenticate, with
\* stream 2 open on the same file, and no lock is held.
C35_Witness ==
  /\ last.op = "write" /\ last.stream = 1 /\ last.err = "MacMismatch"
  /\ opened[2] /\ \A s \in Streams : lock[s] = "none"


\* C36: a read or write that fails because a chunk cannot be
\* authenticated, decrypted or encrypted leaves the cleartext position of
\* its stream where it was before the call.
C36_FailedCallKeepsPosition ==
  [][(last = NoCall /\ last'.op \in {"read", "write"}
        /\ last'.err \notin {"none", "Busy", "panic"}) =>
       CleartextPos(fpos'[last'.stream]) = CleartextPos(fpos[last'.stream])]_vars


\* C37: when two opens race on the same empty file at most one writes a
\* header.  An open changes the file only if the file was empty, and then
\* to the header it returns; once written the first H bytes never change;
\* and every stream that is open caches the header those bytes decrypt to.
C37_OneHeader ==
  [][/\ (last = NoCall /\ last'.op = "open" /\ exists) =>
          /\ file' # file => (file = <<>> /\ last'.err = "none"
                                /\ file' = EncryptHeader(header'[last'.stream]))
          /\ last'.err \in {"none", "Busy"}
     /\ file # <<>> =>
          Take(file', encrypted_header_len) = Take(file, encrypted_header_len)
     /\ \A s \in Streams :
          opened'[s] =>
            /\ Len(file') >= encrypted_header_len
            /\ DecryptHeader(Take(file', encrypted_header_len)).ok
            /\ header'[s] = DecryptHeader(Take(file', encrypted_header_len)).val]_vars

\* Stream 2 has opened after stream 1 wrote the header with the random
\* byte 1: both cache that header, and an open of stream 2 that came while
\* stream 1 was inside its own failed with Busy.
C37_Witness ==
  /\ opened[1] /\ opened[2] /\ last.op = "open" /\ last.stream = 2
  /\ last.err = "none" /\ header[1] = header[2]
  /\ header[2] = NewHeader(1, 1) /\ Len(file) = encrypted_header_len
C37_BusyWitness ==
  /\ last.op = "open" /\ last.stream = 2 /\ last.err = "Busy"
  /\ pc[1] = "open" /\ file = <<>>

====
